---- MODULE Spec2Model ----
(***************************************************************************)
(* Model of the Obsidian-flavoured markdown parser and generic renderer of *)
(* src/src/lib/markdown.ts.                                                *)
(*                                                                         *)
(* A JavaScript string is a sequence of one-character strings.  Positions  *)
(* are 0-based as in the source; -1 is "not found".  An optional field     *)
(* (title?, display?, language?, align?, checked?, start?) is <<>> when    *)
(* undefined and <<v>> when set to v.                                      *)
(***************************************************************************)
EXTENDS Integers, Sequences, FiniteSets, TLC

(***************************************************************************)
(* JavaScript string primitives                                            *)
(***************************************************************************)
Undefined == <<>>

NoChar == "undefined"

\* the backquote character, which a TLA+ string cannot hold
Backtick == "BACKTICK"

LowerCase == <<"a","b","c","d","e","f","g","h","i","j","k","l","m",
               "n","o","p","q","r","s","t","u","v","w","x","y","z">>

UpperCase == <<"A","B","C","D","E","F","G","H","I","J","K","L","M",
               "N","O","P","Q","R","S","T","U","V","W","X","Y","Z">>

Digits == <<"0","1","2","3","4","5","6","7","8","9">>

Range(f) == {f[k] : k \in DOMAIN f}

\* \s of a JavaScript regular expression (the ASCII part)
SpaceChars == {" ", "\t", "\n", "\r", "\f"}

IsSpace(c) == c \in SpaceChars

\* . of a JavaScript regular expression: anything but a line terminator
IsDot(c) == c \notin {"\n", "\r", NoChar}

IsDigit(c) == c \in Range(Digits)

\* \w of a JavaScript regular expression
IsWord(c) == c \in Range(LowerCase) \cup Range(UpperCase) \cup Range(Digits) \cup {"_"}

Min(a, b) == IF a < b THEN a ELSE b

Max(a, b) == IF a > b THEN a ELSE b

\* text[k]
At(s, k) == IF k >= 0 /\ k < Len(s) THEN s[k + 1] ELSE NoChar

\* text.slice(from, to) for from, to >= 0
Slice(s, from, to) == SubSeq(s, Min(from, Len(s)) + 1, Min(to, Len(s)))

\* text.slice(from)
SliceFrom(s, from) == Slice(s, from, Len(s))

StartsWith(s, p) == Slice(s, 0, Len(p)) = p

EndsWith(s, p) == Len(s) >= Len(p) /\ Slice(s, Len(s) - Len(p), Len(s)) = p

\* text.indexOf(pat, from) for a non-empty pat
IndexOf(s, pat, from) ==
  LET hits == {k \in from..(Len(s) - Len(pat)) : Slice(s, k, k + Len(pat)) = pat}
  IN IF hits = {} THEN -1 ELSE CHOOSE k \in hits : \A m \in hits : k <= m

Includes(s, c) == \E k \in 1..Len(s) : s[k] = c

\* length of the longest run of characters of the set S in s from position from
RECURSIVE RunLen(_, _, _)
RunLen(s, from, S) ==
  IF from < Len(s) /\ s[from + 1] \in S THEN 1 + RunLen(s, from + 1, S) ELSE 0

TrimStart(s) == SliceFrom(s, RunLen(s, 0, SpaceChars))

RECURSIVE TrimEnd(_)
TrimEnd(s) ==
  IF Len(s) > 0 /\ IsSpace(s[Len(s)]) THEN TrimEnd(SubSeq(s, 1, Len(s) - 1)) ELSE s

Trim(s) == TrimEnd(TrimStart(s))

\* text.split(sep) for a one-character separator
RECURSIVE Split(_, _)
Split(s, sep) ==
  LET k == IndexOf(s, <<sep>>, 0)
  IN IF k = -1 THEN <<s>> ELSE <<Slice(s, 0, k)>> \o Split(SliceFrom(s, k + 1), sep)

\* parts.join(sep)
RECURSIVE Join(_, _)
Join(parts, sep) ==
  IF Len(parts) = 0 THEN <<>>
  ELSE IF Len(parts) = 1 THEN parts[1]
  ELSE parts[1] \o sep \o Join(Tail(parts), sep)

ToLowerChar(c) ==
  IF \E k \in 1..Len(UpperCase) : UpperCase[k] = c
  THEN LowerCase[CHOOSE k \in 1..Len(UpperCase) : UpperCase[k] = c]
  ELSE c

ToLowerCase(s) == [k \in 1..Len(s) |-> ToLowerChar(s[k])]

AllDot(s) == \A k \in 1..Len(s) : IsDot(s[k])

(***************************************************************************)
(* Inline tokens                                                           *)
(***************************************************************************)
TextTok(content) == [type |-> "text", content |-> content]

CodeTok(content) == [type |-> "code", content |-> content]

SpanTok(type, children) == [type |-> type, children |-> children]

LinkTok(href, title, children) ==
  [type |-> "link", href |-> href, title |-> title, children |-> children]

ImageTok(alt, src, title) == [type |-> "image", alt |-> alt, src |-> src, title |-> title]

WikilinkTok(target, display) == [type |-> "wikilink", target |-> target, display |-> display]

EmbedTok(target) == [type |-> "embed", target |-> target]

LinebreakTok == [type |-> "linebreak"]

(***************************************************************************)
(* Inline parser: helpers of parseInline                                   *)
(***************************************************************************)
\* a pushText that leaves out the first character of the pending text run
PushTextWithoutFirst(toks, text, textStart, end) ==
  IF end > textStart THEN Append(toks, TextTok(Slice(text, textStart + 1, end))) ELSE toks

\* pushText: the pending text run text[textStart, end) becomes a text token
PushText(toks, text, textStart, end) ==
  IF end > textStart THEN Append(toks, TextTok(Slice(text, textStart, end))) ELSE toks

RECURSIVE findClosingBracketFrom(_, _, _)
findClosingBracketFrom(text, k, depth) ==
  IF k >= Len(text) THEN -1
  ELSE IF At(text, k) = "[" THEN findClosingBracketFrom(text, k + 1, depth + 1)
  ELSE IF At(text, k) = "]"
       THEN IF depth - 1 = 0 THEN k ELSE findClosingBracketFrom(text, k + 1, depth - 1)
  ELSE findClosingBracketFrom(text, k + 1, depth)

findClosingBracket(text, start) == findClosingBracketFrom(text, start, 0)

RECURSIVE findDelimiter(_, _, _)
findDelimiter(text, delim, start) ==
  IF start >= Len(text) THEN -1
  ELSE LET idx == IndexOf(text, delim, start)
       IN IF idx = -1 THEN -1
          ELSE IF At(text, idx - 1) # "\\" THEN idx
          ELSE findDelimiter(text, delim, idx + 1)

\* a post-pass that returns the tokens as they were emitted
mergeTextTokensNot(toks) == toks

RECURSIVE mergeTextTokensInto(_, _)
mergeTextTokensInto(result, toks) ==
  IF Len(toks) = 0 THEN result
  ELSE LET token == Head(toks)
           n == Len(result)
       IN IF token.type = "text" /\ n > 0 /\ result[n].type = "text"
          THEN mergeTextTokensInto(
                 [result EXCEPT ![n] = TextTok(result[n].content \o token.content)],
                 Tail(toks))
          ELSE mergeTextTokensInto(Append(result, token), Tail(toks))

mergeTextTokens(toks) == mergeTextTokensInto(<<>>, toks)

\* part.match(/^(.+?)\s+"(.+)"$/) succeeds with the first group ending at p:
\* part[0,p) is free of line terminators, whitespace runs from p up to a quote,
\* and a non-empty title lies before the closing quote that ends the part
TitleFits(part, p) ==
  /\ AllDot(Slice(part, 0, p))
  /\ IsSpace(At(part, p))
  /\ At(part, p + RunLen(part, p, SpaceChars)) = "\""
  /\ Len(part) - 1 > p + RunLen(part, p, SpaceChars) + 1
  /\ At(part, Len(part) - 1) = "\""
  /\ AllDot(Slice(part, p + RunLen(part, p, SpaceChars) + 1, Len(part) - 1))

\* the end of the lazy first group: the least such p, or 0 when there is no match
RECURSIVE TitleSplitFrom(_, _)
TitleSplitFrom(part, p) ==
  IF p > Len(part) THEN 0
  ELSE IF TitleFits(part, p) THEN p
  ELSE TitleSplitFrom(part, p + 1)

TitleSplitAt(part) == TitleSplitFrom(part, 1)

\* the two groups of the match that splits at p
TitleUrl(part, p) == Slice(part, 0, p)

TitleText(part, p) == Slice(part, p + RunLen(part, p, SpaceChars) + 1, Len(part) - 1)

\* content.match(/^https?:\/\/\S+$/)
IsAutolinkUrl(content) ==
  \/ /\ StartsWith(content, <<"h","t","t","p","s",":","/","/">>)
     /\ Len(content) > 8
     /\ \A k \in 9..Len(content) : ~IsSpace(content[k])
  \/ /\ StartsWith(content, <<"h","t","t","p",":","/","/">>)
     /\ Len(content) > 7
     /\ \A k \in 8..Len(content) : ~IsSpace(content[k])

(***************************************************************************)
(* The rules of parseInline at position i.  A rule that applies gives      *)
(* [rule, from, to, next]: the construct's inner text is text[from, to)    *)
(* and the scan goes on at next; a link's or image's address part is       *)
(* text[to + 2, next - 1).                                                 *)
(***************************************************************************)
Found(rule, from, to, next) == [rule |-> rule, from |-> from, to |-> to, next |-> next]

NoRule == Found("none", 0, 0, 0)

\* a construct with delimiters of length n on both sides, closing at end
Delimited(rule, i, n, end) == IF end = -1 THEN NoRule ELSE Found(rule, i + n, end, end + n)

EscapeAt(text, i) == At(text, i) = "\\" /\ i + 1 < Len(text)

LineBreakAt(text, i) ==
  /\ \/ Slice(text, i, i + 3) = <<" ", " ", "\n">>
     \/ Slice(text, i, i + 2) = <<"\\", "\n">>
  /\ i + 2 < Len(text)

EmbedEnd(text, i) ==
  IF Slice(text, i, i + 3) = <<"!", "[", "[">> THEN IndexOf(text, <<"]", "]">>, i + 3) ELSE -1

WikilinkEnd(text, i) ==
  IF Slice(text, i, i + 2) = <<"[", "[">> THEN IndexOf(text, <<"]", "]">>, i + 2) ELSE -1

\* the wikilink token of the text between the brackets
WikilinkSplit(inner, pipeIndex) ==
  IF pipeIndex # -1
  THEN WikilinkTok(Slice(inner, 0, pipeIndex), <<SliceFrom(inner, pipeIndex + 1)>>)
  ELSE WikilinkTok(inner, Undefined)

\* a wikilink that splits at the last "|" instead of the first
WikilinkOfLastPipe(inner) ==
  IF \E k \in 0..(Len(inner) - 1) : At(inner, k) = "|"
  THEN WikilinkSplit(inner, CHOOSE k \in 0..(Len(inner) - 1) :
                              At(inner, k) = "|" /\ \A m \in (k + 1)..(Len(inner) - 1) : At(inner, m) # "|")
  ELSE WikilinkSplit(inner, -1)

WikilinkOf(inner) == WikilinkSplit(inner, IndexOf(inner, <<"|">>, 0))

\* the position of the ")" that closes a link or image whose text closes at textEnd
AddressEnd(text, textEnd) ==
  IF textEnd # -1 /\ At(text, textEnd + 1) = "(" THEN IndexOf(text, <<")">>, textEnd + 2) ELSE -1

Addressed(rule, from, textEnd, addressEnd) ==
  IF addressEnd = -1 THEN NoRule ELSE Found(rule, from, textEnd, addressEnd + 1)

ImageAltEnd(text, i) ==
  IF At(text, i) = "!" /\ At(text, i + 1) = "[" THEN IndexOf(text, <<"]">>, i + 2) ELSE -1

ImageRule(text, i, altEnd) == Addressed("image", i + 2, altEnd, AddressEnd(text, altEnd))

ImageSplit(alt, srcPart, p) ==
  IF p # 0
  THEN ImageTok(alt, TitleUrl(srcPart, p), <<TitleText(srcPart, p)>>)
  ELSE ImageTok(alt, srcPart, Undefined)

ImageOf(alt, srcPart) == ImageSplit(alt, srcPart, TitleSplitAt(srcPart))

LinkTextEnd(text, i) == IF At(text, i) = "[" THEN findClosingBracket(text, i) ELSE -1

LinkRule(text, i, textEnd) == Addressed("link", i + 1, textEnd, AddressEnd(text, textEnd))

LinkSplit(hrefPart, children, p) ==
  IF p # 0
  THEN LinkTok(TitleUrl(hrefPart, p), <<TitleText(hrefPart, p)>>, children)
  ELSE LinkTok(hrefPart, Undefined, children)

LinkOf(hrefPart, children) == LinkSplit(hrefPart, children, TitleSplitAt(hrefPart))

AutolinkCheck(text, i, endAngle) ==
  IF endAngle # -1 /\ IsAutolinkUrl(Slice(text, i + 1, endAngle)) THEN endAngle ELSE -1

AutolinkEnd(text, i) ==
  IF At(text, i) = "<" THEN AutolinkCheck(text, i, IndexOf(text, <<">">>, i + 1)) ELSE -1

HighlightEnd(text, i) ==
  IF Slice(text, i, i + 2) = <<"=", "=">> THEN IndexOf(text, <<"=", "=">>, i + 2) ELSE -1

StrikethroughEnd(text, i) ==
  IF Slice(text, i, i + 2) = <<"~", "~">> THEN IndexOf(text, <<"~", "~">>, i + 2) ELSE -1

BoldItalicEnd(text, i) ==
  IF /\ Slice(text, i, i + 3) \in {<<"*", "*", "*">>, <<"_", "_", "_">>}
     /\ At(text, i + 3) # " "
  THEN findDelimiter(text, Slice(text, i, i + 3), i + 3)
  ELSE -1

\* a bold rule that wants a space behind the opening delimiter
BoldEndAfterSpace(text, i) ==
  IF /\ Slice(text, i, i + 2) \in {<<"*", "*">>, <<"_", "_">>}
     /\ At(text, i + 2) = " "
  THEN findDelimiter(text, Slice(text, i, i + 2), i + 2)
  ELSE -1

BoldEnd(text, i) ==
  IF /\ Slice(text, i, i + 2) \in {<<"*", "*">>, <<"_", "_">>}
     /\ At(text, i + 2) # " "
  THEN findDelimiter(text, Slice(text, i, i + 2), i + 2)
  ELSE -1

ItalicCheck(text, end) == IF end # -1 /\ At(text, end - 1) # " " THEN end ELSE -1

ItalicEnd(text, i) ==
  IF At(text, i) \in {"*", "_"} /\ At(text, i + 1) # " "
  THEN ItalicCheck(text, findDelimiter(text, <<At(text, i)>>, i + 1))
  ELSE -1

\* inline code with a delimiter of n backquotes
CodeRule(text, i, n) ==
  IF At(text, i) = Backtick
  THEN Delimited("code", i, n, IndexOf(text, [k \in 1..n |-> Backtick], i + n))
  ELSE NoRule

\* the rules below escape and line break, in the order parseInline tries them
RulesAt(text, i) ==
  << Delimited("embed", i, 3, EmbedEnd(text, i)),
     Delimited("wikilink", i, 2, WikilinkEnd(text, i)),
     ImageRule(text, i, ImageAltEnd(text, i)),
     LinkRule(text, i, LinkTextEnd(text, i)),
     Delimited("autolink", i, 1, AutolinkEnd(text, i)),
     Delimited("highlight", i, 2, HighlightEnd(text, i)),
     Delimited("strikethrough", i, 2, StrikethroughEnd(text, i)),
     Delimited("bold_italic", i, 3, BoldItalicEnd(text, i)),
     Delimited("bold", i, 2, BoldEnd(text, i)),
     Delimited("italic", i, 1, ItalicEnd(text, i)),
     CodeRule(text, i, IF At(text, i + 1) = Backtick THEN 2 ELSE 1) >>

\* the first of the rules that applies
RECURSIVE FirstRule(_, _)
FirstRule(rules, k) ==
  IF k > Len(rules) THEN NoRule
  ELSE IF rules[k].rule # "none" THEN rules[k]
  ELSE FirstRule(rules, k + 1)

RuleAt(text, i) ==
  IF EscapeAt(text, i) THEN Found("escape", i + 1, i + 2, i + 2)
  ELSE IF LineBreakAt(text, i)
  THEN Found("linebreak", i, i, i + (IF At(text, i) = "\\" THEN 2 ELSE 3))
  ELSE FirstRule(RulesAt(text, i), 1)

HasChildren(rule) ==
  rule \in {"link", "highlight", "strikethrough", "bold_italic", "bold", "italic"}

\* the token of the construct: inner is its inner text, address the address part
\* of a link or image, children the inline parse of inner
TokenOf(rule, inner, address, children) ==
  CASE rule = "escape" -> TextTok(inner)
    [] rule = "linebreak" -> LinebreakTok
    [] rule = "embed" -> EmbedTok(inner)
    [] rule = "wikilink" -> WikilinkOf(inner)
    [] rule = "image" -> ImageOf(inner, address)
    [] rule = "link" -> LinkOf(address, children)
    [] rule = "autolink" -> LinkTok(inner, Undefined, <<TextTok(inner)>>)
    [] rule = "code" -> CodeTok(inner)
    [] OTHER -> SpanTok(rule, children)

(***************************************************************************)
(* parseInline: one left-to-right scan; the first rule that finds its      *)
(* closing counterpart wins, otherwise the character joins the text run.   *)
(***************************************************************************)
RECURSIVE parseInline(_), Scan(_, _, _, _)
ScanRule(text, i, textStart, toks, m) ==
  IF m.rule = "none" THEN Scan(text, i + 1, textStart, toks)
  ELSE Scan(text, m.next, m.next,
            Append(PushText(toks, text, textStart, i),
                   TokenOf(m.rule,
                           Slice(text, m.from, m.to),
                           Slice(text, m.to + 2, m.next - 1),
                           IF HasChildren(m.rule)
                           THEN parseInline(Slice(text, m.from, m.to))
                           ELSE <<>>)))

Scan(text, i, textStart, toks) ==
  IF i >= Len(text) THEN PushText(toks, text, textStart, Len(text))
  ELSE ScanRule(text, i, textStart, toks, RuleAt(text, i))

parseInline(text) == mergeTextTokens(Scan(text, 0, 0, <<>>))

(***************************************************************************)
(* Block tokens                                                            *)
(***************************************************************************)
ParagraphTok(children) == [type |-> "paragraph", children |-> children]

HeadingTok(level, children) == [type |-> "heading", level |-> level, children |-> children]

CodeBlockTok(language, content) ==
  [type |-> "code_block", language |-> language, content |-> content]

BlockquoteTok(children) == [type |-> "blockquote", children |-> children]

CalloutTok(kind, title, foldable, children) ==
  [type |-> "callout", kind |-> kind, title |-> title, foldable |-> foldable,
   children |-> children]

ListTok(ordered, start, items) ==
  [type |-> "list", ordered |-> ordered, start |-> start, items |-> items]

TableTok(header, rows) == [type |-> "table", header |-> header, rows |-> rows]

HorizontalRuleTok == [type |-> "horizontal_rule"]

HtmlTok(content) == [type |-> "html", content |-> content]

ListItem(checked, children) == [checked |-> checked, children |-> children]

TableCell(align, children) == [align |-> align, children |-> children]

(***************************************************************************)
(* Block parser: line recognisers                                          *)
(***************************************************************************)
IsBlank(line) == Trim(line) = <<>>

\* /^(-{3,}|\*{3,}|_{3,})$/.test(line.trim())
IsHorizontalRule(line) ==
  LET t == Trim(line)
  IN Len(t) >= 3 /\ \E c \in {"-", "*", "_"} : \A k \in 1..Len(t) : t[k] = c

\* the optional tail (?:\s+#+)?$ of the heading pattern
HeadingTailOk(t) ==
  \/ t = <<>>
  \/ LET w == RunLen(t, 0, SpaceChars)
         h == RunLen(t, w, {"#"})
     IN w >= 1 /\ h >= 1 /\ w + h = Len(t)

\* a heading pattern that takes up to seven #
HeadingMatchUpTo7(line) ==
  LET hashes == RunLen(line, 0, {"#"})
      wsRun == RunLen(line, hashes, SpaceChars)
      ends(wlen) == {p \in (hashes + wlen + 1)..Len(line) :
                       /\ AllDot(Slice(line, hashes + wlen, p))
                       /\ HeadingTailOk(SliceFrom(line, p))}
      wlens == {w \in 1..wsRun : ends(w) # {}}
  IN IF hashes >= 1 /\ hashes <= 7 /\ wlens # {}
     THEN LET wlen == CHOOSE w \in wlens : \A m \in wlens : w >= m
              p == CHOOSE q \in ends(wlen) : \A m \in ends(wlen) : q <= m
          IN [ok |-> TRUE, level |-> hashes, content |-> Slice(line, hashes + wlen, p)]
     ELSE [ok |-> FALSE]

\* line.match(/^(#{1,6})\s+(.+?)(?:\s+#+)?$/): [ok, level, content]
HeadingMatch(line) ==
  LET hashes == RunLen(line, 0, {"#"})
      wsRun == RunLen(line, hashes, SpaceChars)
      \* content [from, p) after wlen whitespace characters
      ends(wlen) == {p \in (hashes + wlen + 1)..Len(line) :
                       /\ AllDot(Slice(line, hashes + wlen, p))
                       /\ HeadingTailOk(SliceFrom(line, p))}
      wlens == {w \in 1..wsRun : ends(w) # {}}
  IN IF hashes >= 1 /\ hashes <= 6 /\ wlens # {}
     THEN LET wlen == CHOOSE w \in wlens : \A m \in wlens : w >= m
              p == CHOOSE q \in ends(wlen) : \A m \in ends(wlen) : q <= m
          IN [ok |-> TRUE, level |-> hashes, content |-> Slice(line, hashes + wlen, p)]
     ELSE [ok |-> FALSE]

IsFence(line) ==
  StartsWith(line, <<Backtick, Backtick, Backtick>>) \/ StartsWith(line, <<"~", "~", "~">>)

\* a callout pattern that also takes a marker behind whitespace
CalloutMatchLooseMarker(line) ==
  LET open == 1 + RunLen(line, 1, SpaceChars)
      word == RunLen(line, open + 2, Range(LowerCase) \cup Range(UpperCase)
                                       \cup Range(Digits) \cup {"_"})
      close == open + 2 + word
      at == close + 1 + RunLen(line, close + 1, SpaceChars)
      marker == IF At(line, at) \in {"-", "+"} THEN <<At(line, at)>> ELSE <<>>
      rest == IF marker = <<>> THEN close + 1 ELSE at + 1
      title == SliceFrom(line, rest + RunLen(line, rest, SpaceChars))
  IN IF /\ At(line, 0) = ">"
        /\ At(line, open) = "[" /\ At(line, open + 1) = "!"
        /\ word >= 1
        /\ At(line, close) = "]"
        /\ AllDot(title)
     THEN [ok |-> TRUE, kind |-> Slice(line, open + 2, close), marker |-> marker,
           title |-> title]
     ELSE [ok |-> FALSE]

\* line.match(/^>\s*\[!(\w+)\]([-+])?\s*(.*)$/): [ok, kind, marker, title]
CalloutMatch(line) ==
  LET open == 1 + RunLen(line, 1, SpaceChars)
      word == RunLen(line, open + 2, Range(LowerCase) \cup Range(UpperCase)
                                       \cup Range(Digits) \cup {"_"})
      close == open + 2 + word
      marker == IF At(line, close + 1) \in {"-", "+"} THEN <<At(line, close + 1)>> ELSE <<>>
      rest == close + 1 + Len(marker)
      title == SliceFrom(line, rest + RunLen(line, rest, SpaceChars))
  IN IF /\ At(line, 0) = ">"
        /\ At(line, open) = "[" /\ At(line, open + 1) = "!"
        /\ word >= 1
        /\ At(line, close) = "]"
        /\ AllDot(title)
     THEN [ok |-> TRUE, kind |-> Slice(line, open + 2, close), marker |-> marker,
           title |-> title]
     ELSE [ok |-> FALSE]

\* line.match(/^(\s*)(-|\*|\+|\d+\.)\s/): [ok, indent, digits, after] with after
\* the position behind the whitespace character that follows the marker
ListMatch(line) ==
  LET indent == RunLen(line, 0, SpaceChars)
      digits == RunLen(line, indent, Range(Digits))
      bullet == At(line, indent) \in {"-", "*", "+"} /\ IsSpace(At(line, indent + 1))
      number == /\ digits >= 1
                /\ At(line, indent + digits) = "."
                /\ IsSpace(At(line, indent + digits + 1))
  IN IF bullet THEN [ok |-> TRUE, indent |-> indent, digits |-> <<>>, after |-> indent + 2]
     ELSE IF number
     THEN [ok |-> TRUE, indent |-> indent, digits |-> Slice(line, indent, indent + digits),
           after |-> indent + digits + 2]
     ELSE [ok |-> FALSE]

\* line.match(/^(\s*)(-|\*|\+|(\d+)\.)\s(.*)$/): the same with the rest of the
\* line, which must be free of line terminators, as content
ItemMatch(line) ==
  LET m == ListMatch(line)
  IN IF m.ok /\ AllDot(SliceFrom(line, m.after))
     THEN [ok |-> TRUE, indent |-> m.indent, digits |-> m.digits,
           content |-> SliceFrom(line, m.after)]
     ELSE [ok |-> FALSE]

\* content.match(/^\[([ xX])\]\s(.*)$/): [ok, mark, rest]
TaskMatch(content) ==
  IF /\ At(content, 0) = "[" /\ At(content, 1) \in {" ", "x", "X"} /\ At(content, 2) = "]"
     /\ IsSpace(At(content, 3)) /\ AllDot(SliceFrom(content, 4))
  THEN [ok |-> TRUE, mark |-> At(content, 1), rest |-> SliceFrom(content, 4)]
  ELSE [ok |-> FALSE]

htmlTags ==
  { <<"a","d","d","r","e","s","s">>,
    <<"a","r","t","i","c","l","e">>,
    <<"a","s","i","d","e">>,
    <<"b","a","s","e">>,
    <<"b","a","s","e","f","o","n","t">>,
    <<"b","l","o","c","k","q","u","o","t","e">>,
    <<"b","o","d","y">>,
    <<"c","a","p","t","i","o","n">>,
    <<"c","e","n","t","e","r">>,
    <<"c","o","l">>,
    <<"c","o","l","g","r","o","u","p">>,
    <<"d","d">>,
    <<"d","e","t","a","i","l","s">>,
    <<"d","i","a","l","o","g">>,
    <<"d","i","r">>,
    <<"d","i","v">>,
    <<"d","l">>,
    <<"d","t">>,
    <<"f","i","e","l","d","s","e","t">>,
    <<"f","i","g","c","a","p","t","i","o","n">>,
    <<"f","i","g","u","r","e">>,
    <<"f","o","o","t","e","r">>,
    <<"f","o","r","m">>,
    <<"f","r","a","m","e">>,
    <<"f","r","a","m","e","s","e","t">>,
    <<"h","1">>,
    <<"h","2">>,
    <<"h","3">>,
    <<"h","4">>,
    <<"h","5">>,
    <<"h","6">>,
    <<"h","e","a","d">>,
    <<"h","e","a","d","e","r">>,
    <<"h","r">>,
    <<"h","t","m","l">>,
    <<"i","f","r","a","m","e">>,
    <<"l","e","g","e","n","d">>,
    <<"l","i">>,
    <<"l","i","n","k">>,
    <<"m","a","i","n">>,
    <<"m","e","n","u">>,
    <<"m","e","n","u","i","t","e","m">>,
    <<"n","a","v">>,
    <<"n","o","f","r","a","m","e","s">>,
    <<"o","l">>,
    <<"o","p","t","g","r","o","u","p">>,
    <<"o","p","t","i","o","n">>,
    <<"p">>,
    <<"p","a","r","a","m">>,
    <<"s","e","c","t","i","o","n">>,
    <<"s","o","u","r","c","e">>,
    <<"s","u","m","m","a","r","y">>,
    <<"t","a","b","l","e">>,
    <<"t","b","o","d","y">>,
    <<"t","d">>,
    <<"t","f","o","o","t">>,
    <<"t","h">>,
    <<"t","h","e","a","d">>,
    <<"t","i","t","l","e">>,
    <<"t","r">>,
    <<"t","r","a","c","k">>,
    <<"u","l">> }

isHtmlBlock(line) ==
  LET trimmed == Trim(line)
      from == IF At(trimmed, 1) = "/" THEN 2 ELSE 1
      name == RunLen(trimmed, from, Range(LowerCase) \cup Range(UpperCase)
                                      \cup Range(Digits) \cup {"_", "-"})
  IN /\ At(trimmed, 0) = "<"
     /\ name >= 1
     /\ ToLowerCase(Slice(trimmed, from, from + name)) \in htmlTags

isBlockStart(line) ==
  \/ (RunLen(line, 0, {"#"}) \in 1..6 /\ IsSpace(At(line, RunLen(line, 0, {"#"}))))
  \/ IsHorizontalRule(line)
  \/ IsFence(line)
  \/ StartsWith(line, <<">">>)
  \/ ListMatch(line).ok
  \/ (Includes(line, "|") /\ StartsWith(Trim(line), <<"|">>))

(***************************************************************************)
(* Tables                                                                  *)
(***************************************************************************)
\* one column of the delimiter row: \s*:?-+:?\s*
IsDelimiterCell(part) ==
  LET t == Trim(part)
      from == IF At(t, 0) = ":" THEN 1 ELSE 0
      dashes == RunLen(t, from, {"-"})
      to == from + dashes + (IF At(t, from + dashes) = ":" THEN 1 ELSE 0)
  IN dashes >= 1 /\ to = Len(t)

\* /^\|?(\s*:?-+:?\s*\|)+\s*:?-+:?\s*\|?$/.test(line): an optional leading
\* pipe, two or more delimiter cells separated by pipes, an optional trailing pipe
IsDelimiterRow(line) ==
  LET parts == Split(line, "|")
      first == IF parts[1] = <<>> THEN 2 ELSE 1
      last == IF Len(parts) > 1 /\ parts[Len(parts)] = <<>> THEN Len(parts) - 1 ELSE Len(parts)
  IN /\ last - first + 1 >= 2
     /\ \A k \in first..last : IsDelimiterCell(parts[k])

\* line.replace(/^\||\|$/g, "").split("|").map((cell) => cell.trim())
parseRow(line) ==
  LET a == IF StartsWith(line, <<"|">>) THEN SliceFrom(line, 1) ELSE line
      b == IF EndsWith(a, <<"|">>) THEN Slice(a, 0, Len(a) - 1) ELSE a
      parts == Split(b, "|")
  IN [k \in 1..Len(parts) |-> Trim(parts[k])]

\* an alignment that takes the colons the other way round
AlignmentSwapped(cell) ==
  LET left == StartsWith(cell, <<":">>)
      right == EndsWith(cell, <<":">>)
  IN IF left /\ right THEN <<"center">>
     ELSE IF right THEN <<"left">>
     ELSE IF left THEN <<"right">>
     ELSE Undefined

\* the alignment of one trimmed cell of the delimiter row
Alignment(cell) ==
  LET left == StartsWith(cell, <<":">>)
      right == EndsWith(cell, <<":">>)
  IN IF left /\ right THEN <<"center">>
     ELSE IF right THEN <<"right">>
     ELSE IF left THEN <<"left">>
     ELSE Undefined

\* cells of one row; a cell beyond the delimiter row's columns has no alignment
RowCells(cells, alignments) ==
  [k \in 1..Len(cells) |->
     TableCell(IF k <= Len(alignments) THEN alignments[k] ELSE Undefined,
               parseInline(cells[k]))]

\* the index of the first line from k on that does not contain a pipe
RECURSIVE TableEnd(_, _)
TableEnd(lines, k) ==
  IF k < Len(lines) /\ Includes(lines[k + 1], "|") THEN TableEnd(lines, k + 1) ELSE k

\* tryParseTable: [ok, token, endIndex]
tryParseTable(lines, start) ==
  IF start + 1 >= Len(lines) THEN [ok |-> FALSE]
  ELSE IF ~IsDelimiterRow(lines[start + 2]) THEN [ok |-> FALSE]
  ELSE LET headerCells == parseRow(lines[start + 1])
           delimiterCells == parseRow(lines[start + 2])
       IN IF Len(headerCells) # Len(delimiterCells) THEN [ok |-> FALSE]
          ELSE LET alignments == [k \in 1..Len(delimiterCells) |->
                                    Alignment(delimiterCells[k])]
                   end == TableEnd(lines, start + 2)
               IN [ok |-> TRUE,
                   token |-> TableTok(RowCells(headerCells, alignments),
                                      [r \in 1..(end - start - 2) |->
                                         RowCells(parseRow(lines[start + 2 + r]),
                                                  alignments)]),
                   endIndex |-> end]

(***************************************************************************)
(* Block parser.  lines is 1-based as a TLA+ sequence; the cursor i is the *)
(* source's 0-based index, so the current line is lines[i + 1].            *)
(***************************************************************************)
\* a content loop that stops at a line of either fence character
RECURSIVE CollectFenceAnyFence(_, _, _, _)
CollectFenceAnyFence(lines, k, fence, codeLines) ==
  IF k < Len(lines) /\ ~IsFence(lines[k + 1])
  THEN CollectFenceAnyFence(lines, k + 1, fence, Append(codeLines, lines[k + 1]))
  ELSE [next |-> k, codeLines |-> codeLines]

\* the fenced code block's content lines: [next, codeLines]
RECURSIVE CollectFence(_, _, _, _)
CollectFence(lines, k, fence, codeLines) ==
  IF k < Len(lines) /\ ~StartsWith(lines[k + 1], fence)
  THEN CollectFence(lines, k + 1, fence, Append(codeLines, lines[k + 1]))
  ELSE [next |-> k, codeLines |-> codeLines]

\* the contiguous lines that start with ">", prefix stripped: [next, quoteLines]
RECURSIVE CollectQuote(_, _, _)
CollectQuote(lines, k, quoteLines) ==
  IF k < Len(lines) /\ StartsWith(lines[k + 1], <<">">>)
  THEN CollectQuote(lines, k + 1, Append(quoteLines, TrimStart(SliceFrom(lines[k + 1], 1))))
  ELSE [next |-> k, quoteLines |-> quoteLines]

\* the HTML block's lines up to a blank line: [next, htmlLines]
RECURSIVE CollectHtml(_, _, _)
CollectHtml(lines, k, htmlLines) ==
  IF k < Len(lines) /\ ~IsBlank(lines[k + 1])
  THEN CollectHtml(lines, k + 1, Append(htmlLines, lines[k + 1]))
  ELSE [next |-> k, htmlLines |-> htmlLines]

\* /^(=+|-+)$/.test(line)
IsUnderline(line, c) == Len(line) >= 1 /\ \A k \in 1..Len(line) : line[k] = c

\* the paragraph's lines: [next, paragraphLines]
RECURSIVE CollectParagraph(_, _, _)
CollectParagraph(lines, k, paragraphLines) ==
  IF k < Len(lines) /\ ~IsBlank(lines[k + 1])
  THEN LET currentLine == lines[k + 1]
       IN IF /\ Len(paragraphLines) > 0
             /\ (IsUnderline(Trim(currentLine), "=") \/ IsUnderline(Trim(currentLine), "-"))
          THEN [next |-> k + 1, paragraphLines |-> Append(paragraphLines, currentLine)]
          ELSE IF isBlockStart(currentLine)
          THEN [next |-> k, paragraphLines |-> paragraphLines]
          ELSE CollectParagraph(lines, k + 1, Append(paragraphLines, currentLine))
  ELSE [next |-> k, paragraphLines |-> paragraphLines]

\* the token of the collected paragraph lines (paragraph or setext heading)
SetextLevel(paragraphLines) ==
  IF Len(paragraphLines) < 2 THEN 0
  ELSE IF IsUnderline(paragraphLines[Len(paragraphLines)], "=") THEN 1
  ELSE IF IsUnderline(paragraphLines[Len(paragraphLines)], "-") THEN 2
  ELSE 0

\* a paragraph text that keeps the underline of a setext heading
ParagraphTextWithUnderline(paragraphLines, level) ==
  IF level = 0 THEN Join(paragraphLines, <<"\n">>) ELSE Join(paragraphLines, <<" ">>)

ParagraphText(paragraphLines, level) ==
  IF level = 0 THEN Join(paragraphLines, <<"\n">>)
  ELSE Join(SubSeq(paragraphLines, 1, Len(paragraphLines) - 1), <<" ">>)

ParagraphOf(level, children) ==
  IF level = 0 THEN ParagraphTok(children) ELSE HeadingTok(level, children)

ParagraphToken(paragraphLines) ==
  ParagraphOf(SetextLevel(paragraphLines),
              parseInline(ParagraphText(paragraphLines, SetextLevel(paragraphLines))))

\* the index of the first non-blank line from k on (Len(lines) when none)
RECURSIVE SkipBlank(_, _)
SkipBlank(lines, k) ==
  IF k < Len(lines) /\ IsBlank(lines[k + 1]) THEN SkipBlank(lines, k + 1) ELSE k

\* parseInt of a digit string
RECURSIVE ParseInt(_)
ParseInt(digits) ==
  IF Len(digits) = 0 THEN 0
  ELSE 10 * ParseInt(SubSeq(digits, 1, Len(digits) - 1))
       + (CHOOSE d \in 0..9 : Digits[d + 1] = digits[Len(digits)])

\* the continuation lines of one list item: [next, itemLines]
RECURSIVE CollectItem(_, _, _, _)
CollectItem(lines, k, baseIndent, itemLines) ==
  IF k >= Len(lines) THEN [next |-> k, itemLines |-> itemLines]
  ELSE LET nextLine == lines[k + 1]
           nextItemMatch == ListMatch(nextLine)
       IN IF IsBlank(nextLine)
          THEN LET j == SkipBlank(lines, k + 1)
               IN IF j < Len(lines)
                  THEN IF ListMatch(lines[j + 1]).ok /\ ListMatch(lines[j + 1]).indent <= baseIndent
                       THEN [next |-> k, itemLines |-> itemLines]
                       ELSE IF IsSpace(At(lines[j + 1], 0))
                       THEN CollectItem(lines, j, baseIndent, itemLines)
                       ELSE [next |-> k, itemLines |-> itemLines]
                  ELSE [next |-> k, itemLines |-> itemLines]
          ELSE IF nextItemMatch.ok
          THEN IF nextItemMatch.indent <= baseIndent
               THEN [next |-> k, itemLines |-> itemLines]
               ELSE CollectItem(lines, k + 1, baseIndent,
                                Append(itemLines, SliceFrom(nextLine, baseIndent + 2)))
          ELSE IF StartsWith(nextLine, [n \in 1..(baseIndent + 2) |-> " "])
          THEN CollectItem(lines, k + 1, baseIndent,
                           Append(itemLines, SliceFrom(nextLine, baseIndent + 2)))
          ELSE [next |-> k, itemLines |-> itemLines]

\* A call of parseBlocks yields [hang, tokens]: hang is TRUE when the call never
\* returns, which happens when an iteration of its loop leaves the cursor (and
\* so the whole state of the loop) unchanged.
\* One iteration of the main loop at cursor i gives [hang, next, toks]: the new
\* cursor and the tokens pushed.
Step(next, toks) == [hang |-> FALSE, next |-> next, toks |-> toks]

\* the iteration calls a parseBlocks that never returns
HangStep(i) == [hang |-> TRUE, next |-> i, toks |-> <<>>]

RECURSIVE parseBlocksFrom(_, _, _), BlockStep(_, _), parseListFrom(_, _, _, _)

\* the lines handed to parseBlocks for one list item
ItemLines(taskMatch, itemLines) ==
  IF taskMatch.ok THEN <<taskMatch.rest>> \o Tail(itemLines) ELSE itemLines

Checked(taskMatch) ==
  IF taskMatch.ok THEN <<ToLowerChar(taskMatch.mark) = "x">> ELSE Undefined

\* items.push({ checked, children }) and the next round of parseList's loop
ItemDone(lines, next, baseIndent, items, checked, children) ==
  IF children.hang THEN [hang |-> TRUE]
  ELSE parseListFrom(lines, next, baseIndent, Append(items, ListItem(checked, children.tokens)))

\* a new item at the list's level: c is its collected continuation
ItemStep(lines, baseIndent, items, taskMatch, c) ==
  ItemDone(lines, c.next, baseIndent, items, Checked(taskMatch),
           parseBlocksFrom(ItemLines(taskMatch, c.itemLines), 0, <<>>))

\* one round of parseList's loop at line k
ListLine(lines, k, baseIndent, items, itemMatch) ==
  IF itemMatch.ok /\ itemMatch.indent = baseIndent
  THEN ItemStep(lines, baseIndent, items, TaskMatch(itemMatch.content),
                CollectItem(lines, k + 1, baseIndent, <<itemMatch.content>>))
  ELSE IF IsBlank(lines[k + 1]) THEN parseListFrom(lines, k + 1, baseIndent, items)
  ELSE [hang |-> FALSE, endIndex |-> k, items |-> items]

\* parseList's loop from line k on: [hang, endIndex, items]
parseListFrom(lines, k, baseIndent, items) ==
  IF k >= Len(lines) THEN [hang |-> FALSE, endIndex |-> k, items |-> items]
  ELSE ListLine(lines, k, baseIndent, items, ItemMatch(lines[k + 1]))

ListResult(ordered, startNum, r) ==
  IF r.hang THEN [hang |-> TRUE]
  ELSE [hang |-> FALSE, token |-> ListTok(ordered, startNum, r.items), endIndex |-> r.endIndex]

ListOf(lines, start, match) ==
  IF ~match.ok
  THEN [hang |-> FALSE, token |-> ListTok(FALSE, Undefined, <<>>), endIndex |-> start + 1]
  ELSE ListResult(match.digits # <<>>,
                  IF match.digits # <<>> THEN <<ParseInt(match.digits)>> ELSE Undefined,
                  parseListFrom(lines, start, match.indent, <<>>))

\* parseList: [hang, token, endIndex]
parseList(lines, start) == ListOf(lines, start, ItemMatch(lines[start + 1]))

\* the branches of parseBlocks' loop, from the last to the first
ParagraphBlock(c) ==
  Step(c.next, IF Len(c.paragraphLines) > 0 THEN <<ParagraphToken(c.paragraphLines)>> ELSE <<>>)

HtmlBlock(c) == Step(c.next, <<HtmlTok(Join(c.htmlLines, <<"\n">>))>>)

ListBlock(i, listResult) ==
  IF listResult.hang THEN HangStep(i) ELSE Step(listResult.endIndex, <<listResult.token>>)

\* tableResult is tryParseTable's result when the line has a pipe, else no table
TableBlock(lines, i, line, tableResult) ==
  IF tableResult.ok THEN Step(tableResult.endIndex, <<tableResult.token>>)
  ELSE IF ListMatch(line).ok THEN ListBlock(i, parseList(lines, i))
  ELSE IF StartsWith(Trim(line), <<"<">>) /\ isHtmlBlock(line)
  THEN HtmlBlock(CollectHtml(lines, i + 1, <<line>>))
  ELSE ParagraphBlock(CollectParagraph(lines, i, <<>>))

QuoteStep(i, next, children) ==
  IF children.hang THEN HangStep(i) ELSE Step(next, <<BlockquoteTok(children.tokens)>>)

QuoteBlock(i, c) == QuoteStep(i, c.next, parseBlocksFrom(c.quoteLines, 0, <<>>))

CalloutStep(i, next, calloutMatch, children) ==
  IF children.hang THEN HangStep(i)
  ELSE Step(next, <<CalloutTok(ToLowerCase(calloutMatch.kind),
                               IF calloutMatch.title = <<>> THEN Undefined
                               ELSE <<calloutMatch.title>>,
                               calloutMatch.marker # <<>>,
                               children.tokens)>>)

CalloutBlock(i, calloutMatch, c) ==
  CalloutStep(i, c.next, calloutMatch, parseBlocksFrom(c.quoteLines, 0, <<>>))

QuoteOrBelow(lines, i, line, calloutMatch) ==
  IF calloutMatch.ok THEN CalloutBlock(i, calloutMatch, CollectQuote(lines, i + 1, <<>>))
  ELSE IF StartsWith(line, <<">">>) THEN QuoteBlock(i, CollectQuote(lines, i, <<>>))
  ELSE TableBlock(lines, i, line,
                  IF Includes(line, "|") THEN tryParseTable(lines, i) ELSE [ok |-> FALSE])

FenceBlock(line, c) ==
  Step(c.next + 1,
       <<CodeBlockTok(IF Trim(SliceFrom(line, 3)) = <<>> THEN Undefined
                      ELSE <<Trim(SliceFrom(line, 3))>>,
                      Join(c.codeLines, <<"\n">>))>>)

HeadingOrBelow(lines, i, line, headingMatch) ==
  IF headingMatch.ok
  THEN Step(i + 1, <<HeadingTok(headingMatch.level, parseInline(headingMatch.content))>>)
  ELSE IF IsFence(line)
  THEN FenceBlock(line, CollectFence(lines, i + 1, Slice(line, 0, 3), <<>>))
  ELSE QuoteOrBelow(lines, i, line, CalloutMatch(line))

BlockLine(lines, i, line) ==
  IF IsBlank(line) THEN Step(i + 1, <<>>)
  ELSE IF IsHorizontalRule(line) THEN Step(i + 1, <<HorizontalRuleTok>>)
  ELSE HeadingOrBelow(lines, i, line, HeadingMatch(line))

BlockStep(lines, i) == BlockLine(lines, i, lines[i + 1])

\* the loop goes on after an iteration that moved the cursor
Continue(lines, i, toks, s) ==
  IF s.hang \/ s.next = i THEN [hang |-> TRUE, tokens |-> <<>>]
  ELSE parseBlocksFrom(lines, s.next, toks \o s.toks)

parseBlocksFrom(lines, i, toks) ==
  IF i >= Len(lines) THEN [hang |-> FALSE, tokens |-> toks]
  ELSE Continue(lines, i, toks, BlockStep(lines, i))

parseBlocks(lines) == parseBlocksFrom(lines, 0, <<>>)

(***************************************************************************)
(* Frontmatter parser.  The mapping is a function from keys to values; a   *)
(* value is [kind, val] with kind "string", "boolean", "number" or "list". *)
(***************************************************************************)
EmptyFrontmatter == [key \in {} |-> Undefined]

StringVal(v) == [kind |-> "string", val |-> v]

BooleanVal(v) == [kind |-> "boolean", val |-> v]

NumberVal(v) == [kind |-> "number", val |-> v]

ListVal(v) == [kind |-> "list", val |-> v]

\* frontmatter[key] = value
SetKey(fm, key, value) == [k \in DOMAIN fm \cup {key} |-> IF k = key THEN value ELSE fm[k]]

\* !isNaN(Number(value)) for a value written with an optional sign and decimal
\* digits, the numeric literals of the modelled alphabet
IsNumeric(value) ==
  LET from == IF At(value, 0) \in {"+", "-"} THEN 1 ELSE 0
  IN Len(value) > from /\ \A k \in (from + 1)..Len(value) : IsDigit(value[k])

\* Number(value) for such a value
NumberOf(value) ==
  IF At(value, 0) = "-" THEN 0 - ParseInt(SliceFrom(value, 1))
  ELSE IF At(value, 0) = "+" THEN ParseInt(SliceFrom(value, 1))
  ELSE ParseInt(value)

IsQuote(c) == c \in {"\"", "'"}

\* s.trim().replace(/^["']|["']$/g, "")
StripQuotes(s) ==
  LET t == Trim(s)
      a == IF IsQuote(At(t, 0)) THEN SliceFrom(t, 1) ELSE t
  IN IF Len(a) > 0 /\ IsQuote(a[Len(a)]) THEN Slice(a, 0, Len(a) - 1) ELSE a

\* the value of a key: value pair with a non-empty value
ScalarValue(value) ==
  IF \/ (StartsWith(value, <<"\"">>) /\ EndsWith(value, <<"\"">>))
     \/ (StartsWith(value, <<"'">>) /\ EndsWith(value, <<"'">>))
  THEN StringVal(Slice(value, 1, Len(value) - 1))
  ELSE IF value = <<"t", "r", "u", "e">> THEN BooleanVal(TRUE)
  ELSE IF value = <<"f", "a", "l", "s", "e">> THEN BooleanVal(FALSE)
  ELSE IF IsNumeric(value) THEN NumberVal(NumberOf(value))
  ELSE IF StartsWith(value, <<"[">>) /\ EndsWith(value, <<"]">>)
  THEN LET parts == Split(Slice(value, 1, Len(value) - 1), ",")
       IN ListVal([k \in 1..Len(parts) |-> StripQuotes(parts[k])])
  ELSE StringVal(value)

\* one iteration of the loop over the lines of the YAML region; the state is
\* [fm, currentKey, inArray], inArray standing for currentArray !== null
FrontmatterLine(st, line) ==
  LET trimmed == Trim(line)
      colonIndex == IndexOf(trimmed, <<":">>, 0)
  IN IF trimmed = <<>> \/ StartsWith(trimmed, <<"#">>) THEN st
     ELSE IF StartsWith(trimmed, <<"-", " ">>) /\ st.currentKey # <<>>
     THEN LET item == Trim(SliceFrom(trimmed, 2))
              before == IF st.inArray THEN st.fm[st.currentKey].val ELSE <<>>
          IN [st EXCEPT !.fm = SetKey(st.fm, st.currentKey, ListVal(Append(before, item))),
                        !.inArray = TRUE]
     ELSE IF colonIndex > 0
     THEN LET key == Trim(Slice(trimmed, 0, colonIndex))
              value == Trim(SliceFrom(trimmed, colonIndex + 1))
          IN [fm |-> IF value # <<>> THEN SetKey(st.fm, key, ScalarValue(value)) ELSE st.fm,
              currentKey |-> key,
              inArray |-> FALSE]
     ELSE st

RECURSIVE FrontmatterLines(_, _)
FrontmatterLines(st, yamlLines) ==
  IF Len(yamlLines) = 0 THEN st
  ELSE FrontmatterLines(FrontmatterLine(st, Head(yamlLines)), Tail(yamlLines))

\* parseFrontmatter: [frontmatter, content]
parseFrontmatter(input) ==
  LET endIndex == IndexOf(input, <<"\n", "-", "-", "-">>, 3)
  IN IF ~StartsWith(input, <<"-", "-", "-">>)
     THEN [frontmatter |-> EmptyFrontmatter, content |-> input]
     ELSE IF endIndex = -1
     THEN [frontmatter |-> EmptyFrontmatter, content |-> input]
     ELSE LET yamlContent == Slice(input, 4, endIndex)
              st == FrontmatterLines(
                      [fm |-> EmptyFrontmatter, currentKey |-> <<>>, inArray |-> FALSE],
                      Split(yamlContent, "\n"))
          IN [frontmatter |-> st.fm, content |-> TrimStart(SliceFrom(input, endIndex + 4))]

(***************************************************************************)
(* Generic renderer.  The Renderer<T> configuration is the one that keeps  *)
(* a record of every call: a render function returns the name under which  *)
(* it is registered, the arguments it received, and what the context       *)
(* operations gave for its nested content; join returns its argument list. *)
(***************************************************************************)
RECURSIVE ctxRenderInline(_), ctxRenderBlocks(_)

cfgJoin(outputs) == [join |-> outputs]

\* the value returned by renderer.inline[fn](...args, ctx)
cfgInline(fn, args, inner) == [table |-> "inline", fn |-> fn, args |-> args, inner |-> inner]

\* the value returned by renderer.block[fn](...args, ctx)
cfgBlock(fn, args, inner) == [table |-> "block", fn |-> fn, args |-> args, inner |-> inner]

\* what the list and table functions of the configuration obtain from ctx
ItemsInner(items) == [k \in 1..Len(items) |-> ctxRenderBlocks(items[k].children)]

CellsInner(cells) == [k \in 1..Len(cells) |-> ctxRenderInline(cells[k].children)]

renderInlineToken(token) ==
  CASE token.type = "text" -> cfgInline("text", <<token.content>>, <<>>)
    [] token.type = "bold"
         -> cfgInline("bold", <<token.children>>, <<ctxRenderInline(token.children)>>)
    [] token.type = "italic"
         -> cfgInline("italic", <<token.children>>, <<ctxRenderInline(token.children)>>)
    [] token.type = "bold_italic"
         -> cfgInline("bold_italic", <<token.children>>, <<ctxRenderInline(token.children)>>)
    [] token.type = "strikethrough"
         -> cfgInline("strikethrough", <<token.children>>,
                      <<ctxRenderInline(token.children)>>)
    [] token.type = "highlight"
         -> cfgInline("highlight", <<token.children>>, <<ctxRenderInline(token.children)>>)
    [] token.type = "code" -> cfgInline("code", <<token.content>>, <<>>)
    [] token.type = "link"
         -> cfgInline("link", <<token.href, token.title, token.children>>,
                      <<ctxRenderInline(token.children)>>)
    [] token.type = "image"
         -> cfgInline("image", <<token.src, token.alt, token.title>>, <<>>)
    [] token.type = "wikilink"
         -> cfgInline("wikilink", <<token.target, token.display>>, <<>>)
    [] token.type = "embed" -> cfgInline("embed", <<token.target>>, <<>>)
    [] token.type = "linebreak" -> cfgInline("linebreak", <<>>, <<>>)

renderBlockToken(token) ==
  CASE token.type = "paragraph"
         -> cfgBlock("paragraph", <<token.children>>, <<ctxRenderInline(token.children)>>)
    [] token.type = "heading"
         -> cfgBlock("heading", <<token.level, token.children>>,
                     <<ctxRenderInline(token.children)>>)
    [] token.type = "code_block"
         -> cfgBlock("code_block", <<token.content, token.language>>, <<>>)
    [] token.type = "blockquote"
         -> cfgBlock("blockquote", <<token.children>>, <<ctxRenderBlocks(token.children)>>)
    [] token.type = "callout"
         -> cfgBlock("callout",
                     <<token.kind, token.title, token.foldable, token.children>>,
                     <<ctxRenderBlocks(token.children)>>)
    [] token.type = "list"
         -> cfgBlock("list", <<token.ordered, token.start, token.items>>,
                     ItemsInner(token.items))
    [] token.type = "table"
         -> cfgBlock("table", <<token.header, token.rows>>,
                     <<CellsInner(token.header),
                       [r \in 1..Len(token.rows) |-> CellsInner(token.rows[r])]>>)
    [] token.type = "horizontal_rule" -> cfgBlock("horizontal_rule", <<>>, <<>>)
    [] token.type = "html" -> cfgBlock("html", <<token.content>>, <<>>)

ctxRenderInline(toks) == cfgJoin([k \in 1..Len(toks) |-> renderInlineToken(toks[k])])

\* a renderBlocks that hands the outputs to join in reverse order
ReversedRenderBlocks(toks) ==
  cfgJoin([k \in 1..Len(toks) |-> renderBlockToken(toks[Len(toks) + 1 - k])])

ctxRenderBlocks(toks) == cfgJoin([k \in 1..Len(toks) |-> renderBlockToken(toks[k])])

render(result) == ctxRenderBlocks(result.tokens)

(***************************************************************************)
(* scripts/sync-vault: the link analysis of the collected pages.  A Page   *)
(* is a record [name, content, links, backlinks]; a Map is the sequence of *)
(* its [key, value] entries in insertion order, a Set the sequence of its  *)
(* members in insertion order.                                             *)
(***************************************************************************)
\* the characters in the order of their UTF-16 code units
CodeUnits == Digits \o UpperCase \o LowerCase

CodeUnit(c) == CHOOSE k \in 1..Len(CodeUnits) : CodeUnits[k] = c

\* a < b for two strings, as the default comparison of Array.prototype.sort
StringLess(a, b) ==
  \/ Len(a) < Len(b) /\ Slice(b, 0, Len(a)) = a
  \/ \E k \in 1..Min(Len(a), Len(b)) :
       /\ Slice(a, 0, k - 1) = Slice(b, 0, k - 1)
       /\ CodeUnit(a[k]) < CodeUnit(b[k])

\* array.sort() of an array of strings
RECURSIVE ArraySort(_)
ArraySort(arr) ==
  IF arr = <<>> THEN <<>>
  ELSE SelectSeq(ArraySort(Tail(arr)), LAMBDA s : StringLess(s, Head(arr)))
       \o <<Head(arr)>>
       \o SelectSeq(ArraySort(Tail(arr)), LAMBDA s : ~StringLess(s, Head(arr)))

\* set.add(member)
SetAdd(set, member) ==
  IF \E k \in 1..Len(set) : set[k] = member THEN set ELSE Append(set, member)

\* map.has(key), map.get(key) as an optional value, map.set(key, value)
MapHas(map, key) == \E k \in 1..Len(map) : map[k].key = key

MapGet(map, key) ==
  IF MapHas(map, key)
  THEN <<map[CHOOSE k \in 1..Len(map) : map[k].key = key].value>>
  ELSE Undefined

MapSet(map, key, value) ==
  IF MapHas(map, key)
  THEN [k \in 1..Len(map) |->
          IF map[k].key = key THEN [key |-> key, value |-> value] ELSE map[k]]
  ELSE Append(map, [key |-> key, value |-> value])

\* new Map(entries)
RECURSIVE NewMap(_)
NewMap(entries) ==
  IF entries = <<>> THEN <<>>
  ELSE MapSet(NewMap(Slice(entries, 0, Len(entries) - 1)),
              entries[Len(entries)].key, entries[Len(entries)].value)

LowerAll(strs) == [k \in 1..Len(strs) |-> ToLowerCase(strs[k])]

\* pageLinksMap: lowercase page name -> lowercase links
pageLinksMap(pages) ==
  NewMap([k \in 1..Len(pages) |->
            [key |-> ToLowerCase(pages[k].name), value |-> LowerAll(pages[k].links)]])

validPages(pages) == {ToLowerCase(pages[k].name) : k \in 1..Len(pages)}

\* pageNameMap: lowercase page name -> original page name
pageNameMap(pages) ==
  NewMap([k \in 1..Len(pages) |->
            [key |-> ToLowerCase(pages[k].name), value |-> pages[k].name]])

\* a sibling loop that does not ask whether the sibling is a page of the vault
RECURSIVE AddSiblingsUnchecked(_, _, _, _)
AddSiblingsUnchecked(backlinks, sourceLinks, targetName, valid) ==
  IF sourceLinks = <<>> THEN backlinks
  ELSE AddSiblingsUnchecked(
         IF Head(sourceLinks) # targetName
         THEN SetAdd(backlinks, Head(sourceLinks))
         ELSE backlinks,
         Tail(sourceLinks), targetName, valid)

\* the inner loop over the siblings of one source page
RECURSIVE AddSiblings(_, _, _, _)
AddSiblings(backlinks, sourceLinks, targetName, valid) ==
  IF sourceLinks = <<>> THEN backlinks
  ELSE AddSiblings(
         IF Head(sourceLinks) # targetName /\ Head(sourceLinks) \in valid
         THEN SetAdd(backlinks, Head(sourceLinks))
         ELSE backlinks,
         Tail(sourceLinks), targetName, valid)

\* the loop over the entries of pageLinksMap for one target page
RECURSIVE CollectBacklinks(_, _, _, _)
CollectBacklinks(backlinks, entries, targetName, valid) ==
  IF entries = <<>> THEN backlinks
  ELSE CollectBacklinks(
         IF \E k \in 1..Len(Head(entries).value) : Head(entries).value[k] = targetName
         THEN AddSiblings(SetAdd(backlinks, Head(entries).key),
                          Head(entries).value, targetName, valid)
         ELSE backlinks,
         Tail(entries), targetName, valid)

\* pageNameMap.get(name) ?? name
OriginalName(names, name) ==
  IF MapGet(names, name) = Undefined THEN name ELSE MapGet(names, name)[1]

\* the backlinks assigned to the page of the given name
BacklinksOf(pages, name) ==
  ArraySort(
    [k \in 1..Len(CollectBacklinks(<<>>, pageLinksMap(pages), ToLowerCase(name),
                                   validPages(pages))) |->
       OriginalName(pageNameMap(pages),
                    CollectBacklinks(<<>>, pageLinksMap(pages), ToLowerCase(name),
                                     validPages(pages))[k])])

calculateBacklinks(pages) ==
  [k \in 1..Len(pages) |->
     [pages[k] EXCEPT !.backlinks = BacklinksOf(pages, pages[k].name)]]

\* the end of a match of /^\d+\.\d+\.\d+\s+/ in s, or -1
DigitsEnd(s, from) == from + RunLen(s, from, Range(Digits))

PrefixEnd(s) ==
  IF /\ DigitsEnd(s, 0) > 0
     /\ At(s, DigitsEnd(s, 0)) = "."
     /\ DigitsEnd(s, DigitsEnd(s, 0) + 1) > DigitsEnd(s, 0) + 1
     /\ At(s, DigitsEnd(s, DigitsEnd(s, 0) + 1)) = "."
     /\ DigitsEnd(s, DigitsEnd(s, DigitsEnd(s, 0) + 1) + 1)
          > DigitsEnd(s, DigitsEnd(s, 0) + 1) + 1
     /\ IsSpace(At(s, DigitsEnd(s, DigitsEnd(s, DigitsEnd(s, 0) + 1) + 1)))
  THEN DigitsEnd(s, DigitsEnd(s, DigitsEnd(s, 0) + 1) + 1)
       + RunLen(s, DigitsEnd(s, DigitsEnd(s, DigitsEnd(s, 0) + 1) + 1), SpaceChars)
  ELSE -1

\* filename.replace(/\.md$/, "")
nameWithoutExt(filename) ==
  IF EndsWith(filename, <<".", "m", "d">>)
  THEN Slice(filename, 0, Len(filename) - 3)
  ELSE filename

parseTitle(filename) ==
  IF PrefixEnd(nameWithoutExt(filename)) = -1
  THEN nameWithoutExt(filename)
  ELSE SliceFrom(nameWithoutExt(filename), PrefixEnd(nameWithoutExt(filename)))

\* DEFAULT_TAG, the publish tag of main when SYNC_TAG is not set
DEFAULT_TAG == <<"w", "i", "k", "i">>

\* new RegExp(`#${tag}\\b`).test(content), for a tag that ends with a word
\* character
hasPublishTag(content, tag) ==
  \E p \in 0..(Len(content) - 1) :
    /\ Slice(content, p, p + 1 + Len(tag)) = <<"#">> \o tag
    /\ ~IsWord(At(content, p + 1 + Len(tag)))

\* the number of line feeds in the run of whitespace of s that starts at from
RECURSIVE RunNewlines(_, _)
RunNewlines(s, from) ==
  IF from < Len(s) /\ IsSpace(s[from + 1])
  THEN (IF s[from + 1] = "\n" THEN 1 ELSE 0) + RunNewlines(s, from + 1)
  ELSE 0

\* the position after the last line feed of the run of whitespace of s that
\* starts at from
RECURSIVE AfterLastNewline(_, _)
AfterLastNewline(s, from) ==
  IF RunNewlines(s, from + 1) > 0 THEN AfterLastNewline(s, from + 1)
  ELSE IF s[from + 1] = "\n" THEN from + 1
  ELSE AfterLastNewline(s, from + 1)

\* text.replace(/\n\s*\n\s*\n/g, "\n\n") from position from: the two \s* are
\* greedy, so a match runs from a line feed to the last line feed of the run of
\* whitespace it starts, which holds three line feeds or more
RECURSIVE CollapseBlankLines(_, _)
CollapseBlankLines(s, from) ==
  IF from >= Len(s) THEN <<>>
  ELSE IF s[from + 1] = "\n" /\ RunNewlines(s, from) >= 3
  THEN <<"\n", "\n">> \o CollapseBlankLines(s, AfterLastNewline(s, from))
  ELSE <<s[from + 1]>> \o CollapseBlankLines(s, from + 1)

\* content.replace(/#\w+/g, "") from position from
RECURSIVE RemoveTags(_, _)
RemoveTags(s, from) ==
  IF from >= Len(s) THEN <<>>
  ELSE IF s[from + 1] = "#" /\ IsWord(At(s, from + 1))
  THEN RemoveTags(s, from + 1 + RunLen(s, from + 1, {c \in Range(s) : IsWord(c)}))
  ELSE <<s[from + 1]>> \o RemoveTags(s, from + 1)

stripTags(content) == Trim(CollapseBlankLines(RemoveTags(content, 0), 0))

DmMarker == <<"@", "@", "d", "m">>

\* content.replace(/@@dm[\s\S]*?@@dm/g, "") from position from: an opening
\* marker up to the nearest marker after it
RECURSIVE RemoveDmSections(_, _)
RemoveDmSections(s, from) ==
  IF from >= Len(s) THEN <<>>
  ELSE IF Slice(s, from, from + 4) = DmMarker /\ IndexOf(s, DmMarker, from + 4) # -1
  THEN RemoveDmSections(s, IndexOf(s, DmMarker, from + 4) + 4)
  ELSE <<s[from + 1]>> \o RemoveDmSections(s, from + 1)

stripDmSections(content) == Trim(CollapseBlankLines(RemoveDmSections(content, 0), 0))

\* the end of the longest run from position from of characters other than the
\* given ones
RECURSIVE RunExcept(_, _, _)
RunExcept(s, from, S) ==
  IF from < Len(s) /\ s[from + 1] \notin S THEN RunExcept(s, from + 1, S) ELSE from

\* the end of (?:\|[^\]]+)?\]\] at position from, -1 when it does not match
LinkTail(s, from) ==
  IF At(s, from) = "|" /\ RunExcept(s, from + 1, {"]"}) > from + 1
     /\ Slice(s, RunExcept(s, from + 1, {"]"}), RunExcept(s, from + 1, {"]"}) + 2) = <<"]", "]">>
  THEN RunExcept(s, from + 1, {"]"}) + 2
  ELSE IF Slice(s, from, from + 2) = <<"]", "]">> THEN from + 2
  ELSE -1

\* the end of \[\[([^\]|]+)(?:\|[^\]]+)?\]\] at position from, -1 when it does
\* not match
WikilinkMatchEnd(s, from) ==
  IF Slice(s, from, from + 2) = <<"[", "[">> /\ RunExcept(s, from + 2, {"]", "|"}) > from + 2
  THEN LinkTail(s, RunExcept(s, from + 2, {"]", "|"}))
  ELSE -1

\* where $2 starts when \[\[(\d+\.\d+\.\d+\s+) matches at position from, -1
\* when it does not: \s+ gives its last character back when nothing else is left
\* for $2
PrefixedNameStart(s, from) ==
  IF Slice(s, from, from + 2) # <<"[", "[">> \/ PrefixEnd(SliceFrom(s, from + 2)) = -1
  THEN -1
  ELSE IF At(s, from + 2 + PrefixEnd(SliceFrom(s, from + 2))) \notin {"]", "|", NoChar}
  THEN from + 2 + PrefixEnd(SliceFrom(s, from + 2))
  ELSE IF IsSpace(At(s, from + PrefixEnd(SliceFrom(s, from + 2))))
  THEN from + 1 + PrefixEnd(SliceFrom(s, from + 2))
  ELSE -1

\* the end of the match of the pattern of stripWikilinkPrefixes whose $2 starts
\* at position name, -1 when there is none
PrefixedEnd(s, name) ==
  IF name = -1 THEN -1 ELSE LinkTail(s, RunExcept(s, name, {"]", "|"}))

\* content.replace(/\[\[(\d+\.\d+\.\d+\s+)([^\]|]+)(\|[^\]]+)?\]\]/g, "[[$2$3]]")
\* from position from
RECURSIVE ReplacePrefixes(_, _)
ReplacePrefixes(s, from) ==
  IF from >= Len(s) THEN <<>>
  ELSE IF PrefixedEnd(s, PrefixedNameStart(s, from)) # -1
  THEN <<"[", "[">>
         \o Slice(s, PrefixedNameStart(s, from), PrefixedEnd(s, PrefixedNameStart(s, from)))
         \o ReplacePrefixes(s, PrefixedEnd(s, PrefixedNameStart(s, from)))
  ELSE <<s[from + 1]>> \o ReplacePrefixes(s, from + 1)

stripWikilinkPrefixes(content) == ReplacePrefixes(content, 0)

\* the loop of extractWikilinks over content.matchAll(...) from position from
RECURSIVE MatchWikilinks(_, _, _)
MatchWikilinks(s, from, links) ==
  IF from >= Len(s) THEN links
  ELSE IF WikilinkMatchEnd(s, from) # -1
  THEN MatchWikilinks(s, WikilinkMatchEnd(s, from),
                      SetAdd(links, Trim(Slice(s, from + 2, RunExcept(s, from + 2, {"]", "|"})))))
  ELSE MatchWikilinks(s, from + 1, links)

extractWikilinks(content) == MatchWikilinks(content, 0, <<>>)

\* const processedContent of collectPages
processedContent(content) == stripWikilinkPrefixes(stripDmSections(stripTags(content)))

\* the body of the loop of collectPages for one file: a file is a record
\* [filename, content], content what readFile gives
CollectFile(collected, file, publishTag) ==
  IF hasPublishTag(file.content, publishTag)
  THEN Append(collected, [name |-> parseTitle(file.filename),
                          content |-> processedContent(file.content),
                          links |-> extractWikilinks(processedContent(file.content)),
                          backlinks |-> <<>>])
  ELSE collected

(***************************************************************************)
(* routes/api/sync: the POST handler.  A row of the pages table is a       *)
(* record [id, name, content, updated_at, backlinks]; NULL is Undefined.   *)
(* A request is [json, pages]: json tells whether the body parses, pages   *)
(* is body.pages when it is an array and Undefined otherwise.              *)
(***************************************************************************)
\* JSON.stringify(array), kept as the text of that array
JSONStringify(arr) == [json |-> arr]

Response(status, body) == [status |-> status, body |-> body]

\* body.pages.filter(...): the pages that have a name
RECURSIVE FilterValid(_)
FilterValid(input) ==
  IF input = <<>> THEN <<>>
  ELSE (IF Head(input).name = <<>> THEN <<>> ELSE <<Head(input)>>) \o FilterValid(Tail(input))

\* result.errors after the filter
RECURSIVE FilterErrors(_)
FilterErrors(input) ==
  IF input = <<>> THEN <<>>
  ELSE (IF Head(input).name = <<>> THEN <<"Page missing name">> ELSE <<>>)
       \o FilterErrors(Tail(input))

\* SELECT id, LOWER(name) as name FROM pages WHERE LOWER(name) IN (...)
RECURSIVE existingPages(_, _)
existingPages(rows, valid) ==
  IF rows = <<>> THEN <<>>
  ELSE (IF \E k \in 1..Len(valid) : ToLowerCase(valid[k].name) = ToLowerCase(Head(rows).name)
        THEN <<[key |-> ToLowerCase(Head(rows).name), value |-> Head(rows).id]>>
        ELSE <<>>)
       \o existingPages(Tail(rows), valid)

\* the statement built for one valid page
UpsertStatement(existingMap, page) ==
  IF MapGet(existingMap, ToLowerCase(page.name)) # Undefined
     /\ MapGet(existingMap, ToLowerCase(page.name))[1] # 0
  THEN [op |-> "update", id |-> MapGet(existingMap, ToLowerCase(page.name))[1],
        name |-> page.name, content |-> page.content]
  ELSE [op |-> "insert", id |-> 0, name |-> page.name, content |-> page.content]

UpsertStatements(existingMap, valid) ==
  [k \in 1..Len(valid) |-> UpsertStatement(existingMap, valid[k])]

\* the id given to an inserted row
RECURSIVE MaxId(_)
MaxId(rows) == IF rows = <<>> THEN 0 ELSE Max(Head(rows).id, MaxId(Tail(rows)))

\* one UPDATE ... WHERE id = ? or INSERT INTO pages (name, content, updated_at)
Execute(rows, st) ==
  IF st.op = "update"
  THEN [k \in 1..Len(rows) |->
          IF rows[k].id = st.id
          THEN [rows[k] EXCEPT !.content = st.content, !.updated_at = "now"]
          ELSE rows[k]]
  ELSE Append(rows, [id |-> MaxId(rows) + 1, name |-> st.name, content |-> st.content,
                     updated_at |-> "now", backlinks |-> Undefined])

\* env.prod_d1_tutorial.batch(statements)
RECURSIVE Batch(_, _)
Batch(rows, statements) ==
  IF statements = <<>> THEN rows
  ELSE Batch(Execute(rows, Head(statements)), Tail(statements))

\* the loop over the links of one page
RECURSIVE AddLinks(_, _, _)
AddLinks(map, name, links) ==
  IF links = <<>> THEN map
  ELSE AddLinks(
         MapSet(map, ToLowerCase(Head(links)),
                SetAdd(IF MapHas(map, ToLowerCase(Head(links)))
                       THEN MapGet(map, ToLowerCase(Head(links)))[1]
                       ELSE <<>>,
                       name)),
         name, Tail(links))

\* backlinksMap: lowercase target -> the names of the pages that link to it
RECURSIVE backlinksMap(_)
backlinksMap(valid) ==
  IF valid = <<>> THEN <<>>
  ELSE AddLinks(backlinksMap(Slice(valid, 0, Len(valid) - 1)),
                valid[Len(valid)].name, valid[Len(valid)].links)

\* UPDATE pages SET backlinks = ? WHERE LOWER(name) = ?, one per target
RECURSIVE BacklinkBatch(_, _)
BacklinkBatch(rows, entries) ==
  IF entries = <<>> THEN rows
  ELSE BacklinkBatch(
         [k \in 1..Len(rows) |->
            IF ToLowerCase(rows[k].name) = Head(entries).key
            THEN [rows[k] EXCEPT !.backlinks = <<JSONStringify(Head(entries).value)>>]
            ELSE rows[k]],
         Tail(entries))

Updated(statements) == Cardinality({k \in 1..Len(statements) : statements[k].op = "update"})

Created(statements) == Cardinality({k \in 1..Len(statements) : statements[k].op = "insert"})

\* the handler past the two checks of the body, for the pages that have a name
Upsert(rows, valid, errors) ==
  IF valid = <<>>
  THEN [db |-> rows,
        response |-> Response(200, [created |-> 0, updated |-> 0, errors |-> errors])]
  ELSE [db |-> BacklinkBatch(
                 Batch(rows, UpsertStatements(NewMap(existingPages(rows, valid)), valid)),
                 backlinksMap(valid)),
        response |->
          Response(200,
            [created |-> Created(UpsertStatements(NewMap(existingPages(rows, valid)), valid)),
             updated |-> Updated(UpsertStatements(NewMap(existingPages(rows, valid)), valid)),
             errors |-> errors])]

\* the POST handler: the table and the response it leaves
POST(rows, request) ==
  IF ~request.json
  THEN [db |-> rows, response |-> Response(400, [error |-> "Invalid JSON"])]
  ELSE IF request.pages = Undefined
  THEN [db |-> rows, response |-> Response(400, [error |-> "pages must be an array"])]
  ELSE Upsert(rows, FilterValid(request.pages[1]), FilterErrors(request.pages[1]))

\* scripts/sync-vault syncToApi: JSON.stringify({ pages }) as the request
SyncRequest(sent) == [json |-> TRUE, pages |-> <<sent>>]

(***************************************************************************)
(* The program: parse(markdown) followed by render(result, cfg).  The main *)
(* loop of the top-level parseBlocks call runs one iteration per step.     *)
(***************************************************************************)
VARIABLES markdown, pc, frontmatter, lines, i, tokens, out

\* the element keys of config.overrides handed to createSolidRenderer
VARIABLES overrides

\* the Page array of scripts/sync-vault, the rows of the pages table of the
\* database, and the SyncResult of the last POST /api/sync
VARIABLES pages, db, result

\* the markdown files found in the vault and the number of them that the loop
\* of collectPages has read
VARIABLES files, scanned

\* the state outside parse and render
otherVars == <<overrides, pages, db, result, files, scanned>>

vars ==
  <<markdown, pc, frontmatter, lines, i, tokens, out, overrides, pages, db, result,
    files, scanned>>

\* the state at the call of parse(input)
Start(input) ==
  /\ markdown = input
  /\ pc = "start"
  /\ frontmatter = EmptyFrontmatter
  /\ lines = <<>>
  /\ i = 0
  /\ tokens = <<>>
  /\ out = cfgJoin(<<>>)
  /\ overrides = {}
  /\ pages = <<>>
  /\ db = <<>>
  /\ result = Undefined
  /\ files = <<>>
  /\ scanned = 0

\* parse, up to the first test of the main loop of parseBlocks
ParseStart ==
  /\ pc = "start"
  /\ LET fm == parseFrontmatter(markdown)
     IN /\ frontmatter' = fm.frontmatter
        /\ lines' = Split(fm.content, "\n")
  /\ i' = 0
  /\ tokens' = <<>>
  /\ pc' = "blocks"
  /\ UNCHANGED <<markdown, out>>
  /\ UNCHANGED otherVars

\* the effect of one iteration of the main loop.  An iteration that calls a
\* parseBlocks that never returns, or that leaves the cursor where it was (the
\* next iteration then starts from the same state, and so does every later one),
\* puts the program at "hung": parse never returns.
Iterate(step) ==
  IF step.hang \/ step.next = i
  THEN /\ pc' = "hung"
       /\ UNCHANGED <<i, tokens>>
  ELSE /\ i' = step.next
       /\ tokens' = tokens \o step.toks
       /\ pc' = pc

\* one iteration of the main loop of the top-level parseBlocks
BlockIteration ==
  /\ pc = "blocks"
  /\ i < Len(lines)
  /\ Iterate(BlockStep(lines, i))
  /\ UNCHANGED <<markdown, frontmatter, lines, out>>
  /\ UNCHANGED otherVars

\* the loop ends and parse returns {frontmatter, tokens}
ParseReturn ==
  /\ pc = "blocks"
  /\ i >= Len(lines)
  /\ pc' = "parsed"
  /\ UNCHANGED <<markdown, frontmatter, lines, i, tokens, out>>
  /\ UNCHANGED otherVars

\* render(result, cfg)
Render ==
  /\ pc = "parsed"
  /\ out' = render([frontmatter |-> frontmatter, tokens |-> tokens])
  /\ pc' = "rendered"
  /\ UNCHANGED <<markdown, frontmatter, lines, i, tokens>>
  /\ UNCHANGED otherVars

Next == ParseStart \/ BlockIteration \/ ParseReturn \/ Render

(***************************************************************************)
(* The Solid renderer: createSolidRenderer(config) builds the renderer     *)
(* that the Markdown component hands to render.  A table entry is the      *)
(* caller's function ("override") or the default one ("default"); either   *)
(* renders the token sequences it is given through ctx.                    *)
(***************************************************************************)
InlineKeys ==
  {"text", "bold", "italic", "bold_italic", "strikethrough", "highlight", "code",
   "link", "image", "wikilink", "embed", "linebreak"}

BlockKeys ==
  {"paragraph", "heading", "code_block", "blockquote", "callout", "list", "list_item",
   "table", "table_cell", "horizontal_rule", "html"}

\* overrides.key ?? default.key, for every key of both tables
createSolidRenderer(given) ==
  [inline |-> [key \in InlineKeys |-> IF key \in given THEN "override" ELSE "default"],
   block |-> [key \in BlockKeys |-> IF key \in given THEN "override" ELSE "default"]]

\* Markdown: render(props.content, createSolidRenderer(props.config)); the
\* output is the renderer together with the calls render made through it
RenderSolid ==
  /\ pc = "parsed"
  /\ out' = [renderer |-> createSolidRenderer(overrides),
             calls |-> render([frontmatter |-> frontmatter, tokens |-> tokens])]
  /\ pc' = "solid"
  /\ UNCHANGED <<markdown, frontmatter, lines, i, tokens>>
  /\ UNCHANGED otherVars

\* MarkdownContent: parse followed by Markdown
NextSolid == ParseStart \/ BlockIteration \/ ParseReturn \/ RenderSolid

(***************************************************************************)
(* scripts/sync-vault main: the pages are collected, calculateBacklinks    *)
(* runs over them, and syncToApi posts them to /api/sync.                  *)
(***************************************************************************)
parserVars == <<markdown, frontmatter, lines, i, tokens, out, overrides>>

\* collectPages: one iteration of the loop over the files
CollectPage ==
  /\ pc = "collecting"
  /\ scanned < Len(files)
  /\ pages' = CollectFile(pages, files[scanned + 1], DEFAULT_TAG)
  /\ scanned' = scanned + 1
  /\ UNCHANGED <<pc, files, db, result>>
  /\ UNCHANGED parserVars

\* collectPages: the loop over the files ends
CollectEnd ==
  /\ pc = "collecting"
  /\ scanned = Len(files)
  /\ pc' = "collected"
  /\ UNCHANGED <<pages, files, scanned, db, result>>
  /\ UNCHANGED parserVars

\* collectPages: the call of calculateBacklinks after all pages are collected
CalculateBacklinks ==
  /\ pc = "collected"
  /\ pages' = calculateBacklinks(pages)
  /\ pc' = "linked"
  /\ UNCHANGED <<db, result, files, scanned>>
  /\ UNCHANGED parserVars

\* main: syncToApi(pages, apiUrl) unless there are no pages to sync; the
\* request is handled by the POST handler
SyncToApi ==
  /\ pc = "linked"
  /\ pages # <<>>
  /\ db' = POST(db, SyncRequest(pages)).db
  /\ result' = <<POST(db, SyncRequest(pages)).response>>
  /\ pc' = "synced"
  /\ UNCHANGED <<pages, files, scanned>>
  /\ UNCHANGED parserVars

NextVault == CalculateBacklinks \/ SyncToApi

NextCollect == CollectPage \/ CollectEnd \/ CalculateBacklinks

(***************************************************************************)
(* Inputs.  A document is a sequence of at most MaxLines lines, joined by  *)
(* newlines; every family of inputs below draws its lines or its pieces    *)
(* from a small set that makes the constructs of interest happen.          *)
(***************************************************************************)
MaxLines == 3

\* the sequences of 1..n elements of the set S
SeqsUpTo(S, n) == UNION {[1..m -> S] : m \in 1..n}

\* the sequences of 0..n elements of the set S
SeqsFrom0(S, n) == {<<>>} \cup SeqsUpTo(S, n)

Doc(ls) == Join(ls, <<"\n">>)

\* one line of every block construct, among them the lines "# " and "| a", a
\* heading line of a document with CRLF line ends, and paragraph lines that
\* hold every inline construct
BlockLines ==
  { <<"#", " ", "a">>, <<"#", " ">>, <<"|", " ", "a">>, <<"-", "-", "-">>,
    <<">", " ", "q">>, <<">", " ", "[", "!", "n", "]", " ", "t">>,
    <<"-", " ", "i">>, <<"p", " ", "*", "*", "b", "*", "*", " ", " ">>, <<>>,
    <<Backtick, Backtick, Backtick>>, <<"<", "p", ">">>,
    <<"a", "|", "b">>, <<"-", "|", "-">>,
    <<"#", " ", "a", "\r">>,
    <<"*", "i", "*", "[", "[", "w", "|", "d", "]", "]", "!", "[", "[", "e", "]", "]",
      "!", "[", "a", "]", "(", "s", ")", "[", "l", "]", "(", "u", " ", "\"", "t", "\"", ")",
      "=", "=", "h", "=", "=", "~", "~", "s", "~", "~", "*", "*", "*", "x", "*", "*", "*",
      Backtick, "c", Backtick, "<", "h", "t", "t", "p", ":", "/", "/", "x", ">">> }

BlockDocs == {Doc(ls) : ls \in SeqsUpTo(BlockLines, MaxLines)}

InitBlocks == \E input \in BlockDocs : Start(input)

SpecBlocks == InitBlocks /\ [][Next]_vars

(***************************************************************************)
(* C1.  parse(markdown) terminates and returns a ParseResult for every     *)
(* input: every iteration of the block parser's main loop consumes at      *)
(* least one line, so the program is never in an iteration that repeats    *)
(* for ever.                                                               *)
(***************************************************************************)
C1_ParseTerminates ==
  /\ pc # "hung"
  /\ (pc = "blocks" /\ i < Len(lines))
       => (~BlockStep(lines, i).hang /\ BlockStep(lines, i).next > i)

(***************************************************************************)
(* C10.  render(result, cfg) is cfg.join of the list, in source order, of  *)
(* the values of one call per top-level block of the cfg.block function    *)
(* named after the block's type, with the block's fields as arguments;     *)
(* ctx.renderInline and ctx.renderBlocks do the same (with cfg.inline for  *)
(* inline tokens) for every token sequence a render function hands them,   *)
(* and an empty sequence gives cfg.join of the empty list.                 *)
(***************************************************************************)
\* the fields of a token in the order of its render function's parameters
InlineFields(t) ==
  CASE t.type \in {"text", "code"} -> <<t.content>>
    [] t.type \in {"bold", "italic", "bold_italic", "strikethrough", "highlight"}
         -> <<t.children>>
    [] t.type = "link" -> <<t.href, t.title, t.children>>
    [] t.type = "image" -> <<t.src, t.alt, t.title>>
    [] t.type = "wikilink" -> <<t.target, t.display>>
    [] t.type = "embed" -> <<t.target>>
    [] t.type = "linebreak" -> <<>>

BlockFields(t) ==
  CASE t.type \in {"paragraph", "blockquote"} -> <<t.children>>
    [] t.type = "heading" -> <<t.level, t.children>>
    [] t.type = "code_block" -> <<t.content, t.language>>
    [] t.type = "callout" -> <<t.kind, t.title, t.foldable, t.children>>
    [] t.type = "list" -> <<t.ordered, t.start, t.items>>
    [] t.type = "table" -> <<t.header, t.rows>>
    [] t.type = "horizontal_rule" -> <<>>
    [] t.type = "html" -> <<t.content>>

\* value is what the context operation of the given table gives for toks
RECURSIVE JoinedCalls(_, _, _)
\* the nested outputs of one call are the context's outputs for the nested sequences
NestedCalls(table, t, inner) ==
  IF table = "inline"
  THEN IF t.type \in {"bold", "italic", "bold_italic", "strikethrough", "highlight", "link"}
       THEN Len(inner) = 1 /\ JoinedCalls("inline", t.children, inner[1])
       ELSE inner = <<>>
  ELSE CASE t.type \in {"paragraph", "heading"}
              -> Len(inner) = 1 /\ JoinedCalls("inline", t.children, inner[1])
         [] t.type \in {"blockquote", "callout"}
              -> Len(inner) = 1 /\ JoinedCalls("block", t.children, inner[1])
         [] t.type = "list"
              -> /\ Len(inner) = Len(t.items)
                 /\ \A k \in 1..Len(t.items) :
                      JoinedCalls("block", t.items[k].children, inner[k])
         [] t.type = "table"
              -> /\ Len(inner) = 2
                 /\ Len(inner[1]) = Len(t.header)
                 /\ \A c \in 1..Len(t.header) :
                      JoinedCalls("inline", t.header[c].children, inner[1][c])
                 /\ Len(inner[2]) = Len(t.rows)
                 /\ \A r \in 1..Len(t.rows) :
                      /\ Len(inner[2][r]) = Len(t.rows[r])
                      /\ \A c \in 1..Len(t.rows[r]) :
                           JoinedCalls("inline", t.rows[r][c].children, inner[2][r][c])
         [] OTHER -> inner = <<>>

JoinedCalls(table, toks, value) ==
  /\ DOMAIN value = {"join"}
  /\ Len(value.join) = Len(toks)
  /\ \A k \in 1..Len(toks) :
       /\ value.join[k].table = table
       /\ value.join[k].fn = toks[k].type
       /\ value.join[k].args
            = (IF table = "inline" THEN InlineFields(toks[k]) ELSE BlockFields(toks[k]))
       /\ NestedCalls(table, toks[k], value.join[k].inner)

C10_RenderDispatch ==
  pc = "rendered"
    => /\ JoinedCalls("block", tokens, out)
       /\ (tokens = <<>> => out = cfgJoin(<<>>))

\* a document of several blocks of different types, one with nested blocks and
\* one with nested inline tokens, has been rendered
C10_Witness ==
  /\ pc = "rendered"
  /\ Len(tokens) >= 3
  /\ \E a, b, c \in 1..Len(tokens) :
       /\ a < b /\ b < c
       /\ tokens[a].type # tokens[b].type /\ tokens[b].type # tokens[c].type
  /\ \E k \in 1..Len(tokens) : tokens[k].type = "blockquote" /\ tokens[k].children # <<>>
  /\ \E k \in 1..Len(tokens) :
       /\ tokens[k].type = "paragraph"
       /\ \E m \in 1..Len(tokens[k].children) : tokens[k].children[m].type = "bold"

(***************************************************************************)
(* Inline inputs: one line of paragraph text made of at most MaxPieces     *)
(* pieces, each a piece of plain text or the delimiter "**".               *)
(***************************************************************************)
MaxPieces == 5

\* the characters that are not special to markdown in the inputs below
PlainChars == {"a", "b", " "}

IsPlain(s) == \A k \in 1..Len(s) : s[k] \in PlainChars

Flatten(parts) == Join(parts, <<>>)

EmphasisPieces == {<<"a">>, <<" ">>, <<"b", " ", "a">>, <<"*", "*">>}

EmphasisDocs == {Flatten(ps) : ps \in SeqsUpTo(EmphasisPieces, MaxPieces)}

InitEmphasis == \E input \in EmphasisDocs : Start(input)

SpecEmphasis == InitEmphasis /\ [][Next]_vars

\* the text tokens of a text: none for the empty text
TextIf(s) == IF s = <<>> THEN <<>> ELSE <<TextTok(s)>>

\* the concatenated contents of a sequence of text tokens
RECURSIVE ConcatContent(_)
ConcatContent(toks) ==
  IF toks = <<>> THEN <<>> ELSE Head(toks).content \o ConcatContent(Tail(toks))

(***************************************************************************)
(* C2.  A paragraph with an opening "**" and no later closing "**" parses  *)
(* to a single paragraph whose children are text tokens only, whose        *)
(* contents concatenated give the input, asterisks included: no bold,      *)
(* italic or other emphasis token is emitted.                              *)
(***************************************************************************)
\* one line, not blank, that holds "**" once and is plain text otherwise
UnterminatedBold(s) ==
  /\ IndexOf(s, <<"*", "*">>, 0) # -1
  /\ IsPlain(Slice(s, 0, IndexOf(s, <<"*", "*">>, 0)))
  /\ IsPlain(SliceFrom(s, IndexOf(s, <<"*", "*">>, 0) + 2))
  /\ Trim(s) # <<>>

C2_UnterminatedIsText ==
  (pc = "parsed" /\ UnterminatedBold(markdown))
    => /\ Len(tokens) = 1
       /\ tokens[1].type = "paragraph"
       /\ \A k \in 1..Len(tokens[1].children) : tokens[1].children[k].type = "text"
       /\ ConcatContent(tokens[1].children) = markdown

(***************************************************************************)
(* C6.  For text T without markdown-special characters that does not start *)
(* with a space, "**T**" inside paragraph text gives, in order, a text     *)
(* token for the text before it, one bold token whose children are the     *)
(* single text token T, and a text token for the text after it.            *)
(***************************************************************************)
\* s is before ++ "**" ++ T ++ "**" ++ after with plain before, T and after
BoldDelimited(s) ==
  /\ IndexOf(s, <<"*", "*">>, 0) # -1
  /\ IndexOf(s, <<"*", "*">>, IndexOf(s, <<"*", "*">>, 0) + 2) # -1
  /\ IsPlain(Slice(s, 0, IndexOf(s, <<"*", "*">>, 0)))
  /\ IsPlain(Slice(s, IndexOf(s, <<"*", "*">>, 0) + 2,
                   IndexOf(s, <<"*", "*">>, IndexOf(s, <<"*", "*">>, 0) + 2)))
  /\ IsPlain(SliceFrom(s, IndexOf(s, <<"*", "*">>, IndexOf(s, <<"*", "*">>, 0) + 2) + 2))

BoldBefore(s) == Slice(s, 0, IndexOf(s, <<"*", "*">>, 0))

BoldText(s) ==
  Slice(s, IndexOf(s, <<"*", "*">>, 0) + 2,
        IndexOf(s, <<"*", "*">>, IndexOf(s, <<"*", "*">>, 0) + 2))

BoldAfter(s) == SliceFrom(s, IndexOf(s, <<"*", "*">>, IndexOf(s, <<"*", "*">>, 0) + 2) + 2)

C6_BoldInParagraph ==
  (/\ pc = "parsed"
   /\ BoldDelimited(markdown)
   /\ BoldText(markdown) # <<>>
   /\ Head(BoldText(markdown)) # " ")
    => tokens = << ParagraphTok(TextIf(BoldBefore(markdown))
                                \o <<SpanTok("bold", <<TextTok(BoldText(markdown))>>)>>
                                \o TextIf(BoldAfter(markdown))) >>

\* "a**b a**a" has been parsed: text on both sides of a bold of two words
C6_Witness ==
  /\ pc = "parsed"
  /\ BoldDelimited(markdown)
  /\ BoldBefore(markdown) # <<>>
  /\ Len(BoldText(markdown)) >= 2
  /\ Head(BoldText(markdown)) # " "
  /\ BoldAfter(markdown) # <<>>
  /\ Len(tokens) = 1
  /\ Len(tokens[1].children) = 3
  /\ tokens[1].children[2].type = "bold"

(***************************************************************************)
(* Frontmatter inputs: a first line, at most MaxYamlLines lines of the     *)
(* region, an optional closing line and a body.                            *)
(***************************************************************************)
MaxYamlLines == 2

FirstLines == {<<"-", "-", "-">>, <<"-", "-", "-", "a">>, <<"a">>}

YamlLines ==
  { <<"k", ":", " ", "v">>, <<"s", ":", " ", "\"", "q", "\"">>, <<"t", ":", " ", "t", "r", "u", "e">>,
    <<"n", ":", " ", "1", "2">>, <<"l", ":", " ", "[", "a", ",", " ", "b", "]">>,
    <<"m", ":">>, <<"-", " ", "x">>, <<>>, <<"#", " ", "c">> }

ClosingLines == {<<"-", "-", "-">>, <<"-", "-">>}

Bodies == {<<>>, <<"B">>, <<" ", "B", "\n", "#", " ", "h">>}

FrontmatterDocs ==
  {Doc(<<first>> \o ys \o <<closing, body>>) :
     first \in FirstLines, ys \in SeqsFrom0(YamlLines, MaxYamlLines),
     closing \in ClosingLines, body \in Bodies}

InitFrontmatter == \E input \in FrontmatterDocs : Start(input)

SpecFrontmatter == InitFrontmatter /\ [][Next]_vars

\* the lines of the input and the index of its first later line that begins with ---
InputLines(s) == Split(s, "\n")

ClosingAt(ls) ==
  IF \E k \in 2..Len(ls) : StartsWith(ls[k], <<"-", "-", "-">>)
  THEN CHOOSE k \in 2..Len(ls) :
         /\ StartsWith(ls[k], <<"-", "-", "-">>)
         /\ \A m \in 2..(k - 1) : ~StartsWith(ls[m], <<"-", "-", "-">>)
  ELSE 0

(***************************************************************************)
(* C3.  If the input does not begin with a line that is exactly ---, or    *)
(* has no later line beginning with --- to close the block, parse returns  *)
(* an empty frontmatter mapping and block-parses the entire input,         *)
(* unchanged, as the body.                                                 *)
(***************************************************************************)
C3_NoFrontmatterBlock ==
  (/\ pc \in {"blocks", "parsed"}
   /\ \/ InputLines(markdown)[1] # <<"-", "-", "-">>
      \/ ClosingAt(InputLines(markdown)) = 0)
    => /\ frontmatter = EmptyFrontmatter
       /\ lines = InputLines(markdown)

(***************************************************************************)
(* C4.  In a document that begins with a --- line and has a closing ---    *)
(* line, every "key: value" line in between maps its key to the value read *)
(* by kind (quoted string without the quotes, boolean, number, inline list *)
(* of trimmed strings, raw string otherwise), a key with an empty value    *)
(* followed by "- item" lines maps to the list of the items, blank and #   *)
(* lines are skipped, and tokens are the block parse of the text after the *)
(* closing delimiter with leading whitespace removed.                      *)
(***************************************************************************)
\* the lines between the delimiters, and the text after the closing one
RegionLines(ls) == SubSeq(ls, 2, ClosingAt(ls) - 1)

AfterClosing(ls) == Doc(SubSeq(ls, ClosingAt(ls) + 1, Len(ls)))

IsSkipped(line) == Trim(line) = <<>> \/ StartsWith(Trim(line), <<"#">>)

IsItemLine(line) == StartsWith(Trim(line), <<"-", " ">>)

IsKeyValueLine(line) ==
  ~IsSkipped(line) /\ ~IsItemLine(line) /\ IndexOf(Trim(line), <<":">>, 0) > 0

KeyOf(line) == Trim(Slice(Trim(line), 0, IndexOf(Trim(line), <<":">>, 0)))

ValueOf(line) == Trim(SliceFrom(Trim(line), IndexOf(Trim(line), <<":">>, 0) + 1))

\* the items of the "- item" lines that follow line j, up to the next key
RECURSIVE ItemsAfter(_, _)
ItemsAfter(ys, j) ==
  IF j >= Len(ys) THEN <<>>
  ELSE IF IsSkipped(ys[j + 1]) THEN ItemsAfter(ys, j + 1)
  ELSE IF IsItemLine(ys[j + 1])
  THEN <<Trim(SliceFrom(Trim(ys[j + 1]), 2))>> \o ItemsAfter(ys, j + 1)
  ELSE <<>>

\* the value the claim gives for a non-empty written value
ValueByKind(v) ==
  IF Len(v) >= 2 /\ Head(v) = "\"" /\ v[Len(v)] = "\"" THEN StringVal(Slice(v, 1, Len(v) - 1))
  ELSE IF v = <<"t", "r", "u", "e">> THEN BooleanVal(TRUE)
  ELSE IF v = <<"f", "a", "l", "s", "e">> THEN BooleanVal(FALSE)
  ELSE IF \A k \in 1..Len(v) : IsDigit(v[k]) THEN NumberVal(ParseInt(v))
  ELSE IF Head(v) = "[" /\ v[Len(v)] = "]"
  THEN ListVal([k \in 1..Len(Split(Slice(v, 1, Len(v) - 1), ",")) |->
                  Trim(Split(Slice(v, 1, Len(v) - 1), ",")[k])])
  ELSE StringVal(v)

\* frontmatter maps key to value
MapsTo(fm, key, value) ==
  /\ key \in DOMAIN fm
  /\ fm[key].kind = value.kind
  /\ fm[key].val = value.val

\* what the claim says of line j of the region ys
LineMapped(fm, ys, j) ==
  IF ~IsKeyValueLine(ys[j]) THEN TRUE
  ELSE IF ValueOf(ys[j]) # <<>> THEN MapsTo(fm, KeyOf(ys[j]), ValueByKind(ValueOf(ys[j])))
  ELSE IF ItemsAfter(ys, j) # <<>> THEN MapsTo(fm, KeyOf(ys[j]), ListVal(ItemsAfter(ys, j)))
  ELSE TRUE

\* no key is written twice in the region
KeysDistinct(ys) ==
  \A a, b \in 1..Len(ys) :
    (a # b /\ IsKeyValueLine(ys[a]) /\ IsKeyValueLine(ys[b])) => KeyOf(ys[a]) # KeyOf(ys[b])

C4_FrontmatterValues ==
  (/\ pc = "parsed"
   /\ InputLines(markdown)[1] = <<"-", "-", "-">>
   /\ ClosingAt(InputLines(markdown)) # 0
   /\ InputLines(markdown)[ClosingAt(InputLines(markdown))] = <<"-", "-", "-">>
   /\ KeysDistinct(RegionLines(InputLines(markdown))))
    => /\ \A j \in 1..Len(RegionLines(InputLines(markdown))) :
            LineMapped(frontmatter, RegionLines(InputLines(markdown)), j)
       /\ tokens = parseBlocks(Split(TrimStart(AfterClosing(InputLines(markdown))), "\n")).tokens

(***************************************************************************)
(* Heading inputs: documents of at most MaxLines lines with ATX lines of   *)
(* one to seven #, underlines, paragraph text and a quoted heading.        *)
(***************************************************************************)
HeadingLines ==
  { <<"#", " ", "a">>, <<"#", "#", " ", " ", "a", " ", "b">>,
    <<"#", "#", "#", "#", "#", "#", " ", "a", " ", "#">>,
    <<"#", "#", "#", "#", "#", "#", "#", " ", "a">>,
    <<"#", "\t", "#">>, <<"#", "a">>, <<"a">>, <<"-", "-", "-">>, <<"=">>, <<>>,
    <<">", " ", "#", "#", "#", " ", "a">> }

HeadingDocs == {Doc(ls) : ls \in SeqsUpTo(HeadingLines, MaxLines)}

InitHeadings == \E input \in HeadingDocs : Start(input)

SpecHeadings == InitHeadings /\ [][Next]_vars

\* the number of leading # of a line
Hashes(line) == RunLen(line, 0, {"#"})

\* n # characters (1 <= n <= 6), whitespace and non-empty text
HeadingShaped(line) ==
  /\ Hashes(line) \in 1..6
  /\ RunLen(line, Hashes(line), SpaceChars) >= 1
  /\ Hashes(line) + RunLen(line, Hashes(line), SpaceChars) < Len(line)

\* every heading token of a block sequence, at any depth, has a level in 1..6
RECURSIVE LevelsInRange(_)
LevelsInRange(toks) ==
  \A k \in 1..Len(toks) :
    CASE toks[k].type = "heading" -> toks[k].level \in 1..6
      [] toks[k].type \in {"blockquote", "callout"} -> LevelsInRange(toks[k].children)
      [] toks[k].type = "list"
           -> \A m \in 1..Len(toks[k].items) : LevelsInRange(toks[k].items[m].children)
      [] OTHER -> TRUE

\* an iteration at a heading-shaped line gives one heading of the line's level
\* and consumes the line
OneHeadingPerLine ==
  (pc = "blocks" /\ i < Len(lines) /\ HeadingShaped(lines[i + 1]))
    => /\ ~BlockStep(lines, i).hang
       /\ BlockStep(lines, i).next = i + 1
       /\ Len(BlockStep(lines, i).toks) = 1
       /\ BlockStep(lines, i).toks[1].type = "heading"
       /\ BlockStep(lines, i).toks[1].level = Hashes(lines[i + 1])

\* k heading-shaped lines give k headings, in order
HeadingsInOrder ==
  (pc = "parsed" /\ \A k \in 1..Len(lines) : HeadingShaped(lines[k]))
    => /\ Len(tokens) = Len(lines)
       /\ \A k \in 1..Len(lines) :
            tokens[k].type = "heading" /\ tokens[k].level = Hashes(lines[k])

MaxInner == 3

WikiBefores == {<<>>, <<"a", " ">>}

WikiChars == {"a", "|", "]", "["}

WikiAfters == {<<>>, <<" ", "a">>, <<"(", "b", ")">>, <<"]">>}

WikiDocs ==
  {before \o <<"[", "[">> \o inner \o <<"]", "]">> \o after :
     before \in WikiBefores, inner \in SeqsFrom0(WikiChars, MaxInner), after \in WikiAfters}

InitWikilink == \E input \in WikiDocs : Start(input)

SpecWikilink == InitWikilink /\ [][Next]_vars

\* the text before the first "[[" of s, and what lies behind it
WikiBefore(s) == Slice(s, 0, IndexOf(s, <<"[", "[">>, 0))

\* X when s is taken as before ++ "[[" ++ X ++ "]]" ++ after
WikiInner(s, after) == Slice(s, Len(WikiBefore(s)) + 2, Len(s) - Len(after) - 2)

\* s is before ++ "[[" ++ X ++ "]]" ++ after for the plain text before its first
\* "[[" and some X free of "]]"
IsWikiText(s, after) ==
  /\ IndexOf(s, <<"[", "[">>, 0) # -1
  /\ IsPlain(WikiBefore(s))
  /\ Len(s) >= Len(WikiBefore(s)) + 4 + Len(after)
  /\ EndsWith(s, <<"]", "]">> \o after)
  /\ IndexOf(WikiInner(s, after), <<"]", "]">>, 0) = -1

\* the wikilink token the claim gives for X
WikilinkFor(inner) ==
  IF IndexOf(inner, <<"|">>, 0) = -1 THEN WikilinkTok(inner, Undefined)
  ELSE WikilinkTok(Slice(inner, 0, IndexOf(inner, <<"|">>, 0)),
                   <<SliceFrom(inner, IndexOf(inner, <<"|">>, 0) + 1)>>)

\* the paragraph of before, the wikilink of X and the text after
WikiParsed(s, after) ==
  tokens = << ParagraphTok(TextIf(WikiBefore(s))
                           \o <<WikilinkFor(WikiInner(s, after))>>
                           \o TextIf(after)) >>

(***************************************************************************)
(* C7.  For inline text containing "[[X]]" with X free of "]]", the        *)
(* scanner emits one wikilink token whose target is the part of X before   *)
(* the first "|" and whose display is the part after it; without a "|"     *)
(* the target is X and the display is absent.  The wikilink rule wins over *)
(* the link rule at the same position.                                     *)
(***************************************************************************)
\* as stated: X is only required to be free of "]]"
C7_WikilinkAsStated ==
  \A after \in WikiAfters :
    (pc = "parsed" /\ IsWikiText(markdown, after)) => WikiParsed(markdown, after)

\* with the precondition that X does not end with "]" either, so that the first
\* "]]" behind the opening brackets is the closing one
C7_Wikilink ==
  \A after \in WikiAfters :
    (/\ pc = "parsed"
     /\ IsWikiText(markdown, after)
     /\ ~EndsWith(WikiInner(markdown, after), <<"]">>))
      => WikiParsed(markdown, after)

\* "a [[a|a]](b)" has been parsed: a target and a display, followed by what
\* would be the address part of a link
C7_Witness ==
  /\ pc = "parsed"
  /\ IsWikiText(markdown, <<"(", "b", ")">>)
  /\ WikiBefore(markdown) # <<>>
  /\ IndexOf(WikiInner(markdown, <<"(", "b", ")">>), <<"|">>, 0) > 0
  /\ Len(tokens) = 1
  /\ Len(tokens[1].children) = 3
  /\ tokens[1].children[2].type = "wikilink"
  /\ tokens[1].children[2].display # Undefined

(***************************************************************************)
(* Callout inputs: documents of at most MaxLines lines out of callout      *)
(* first lines (with and without marker and title), quoted lines and       *)
(* lines that are not quoted.                                              *)
(***************************************************************************)
CalloutLines ==
  { <<">", " ", "[", "!", "n", "]">>,
    <<">", "[", "!", "A", "b", "]", "-", " ", "T">>,
    <<">", " ", "[", "!", "n", "]", "+">>,
    <<">", " ", "[", "!", "n", "]", " ", "-", " ", "t">>,
    <<">", " ", "[", "!", "n", "_", "1", "]", "x", " ">>,
    <<">", " ", "[", "n", "]", " ", "t">>,
    <<">", " ", "b">>, <<">">>, <<">", " ", " ", "#", " ", "h">>, <<">", " ", "#", " ">>,
    <<"b">>, <<>> }

CalloutDocs == {Doc(ls) : ls \in SeqsUpTo(CalloutLines, MaxLines)}

InitCallout == \E input \in CalloutDocs : Start(input)

SpecCallout == InitCallout /\ [][Next]_vars

\* the line is `>`, optional whitespace, `[!`, a kind of word characters, `]`
\* and anything
IsCalloutLine(line) ==
  LET open == IndexOf(line, <<"[">>, 0)
      close == IndexOf(line, <<"]">>, 0)
  IN /\ At(line, 0) = ">"
     /\ open >= 1
     /\ \A k \in 1..(open - 1) : IsSpace(At(line, k))
     /\ At(line, open + 1) = "!"
     /\ close > open + 2
     /\ \A k \in (open + 2)..(close - 1) : IsWord(At(line, k))

\* the kind as written
CalloutKind(line) ==
  Slice(line, IndexOf(line, <<"[">>, 0) + 2, IndexOf(line, <<"]">>, 0))

\* a - or + directly follows the ]
CalloutFolds(line) == At(line, IndexOf(line, <<"]">>, 0) + 1) \in {"-", "+"}

\* the rest of the line behind the ], the marker and the whitespace
CalloutTitle(line) ==
  TrimStart(SliceFrom(line, IndexOf(line, <<"]">>, 0) + (IF CalloutFolds(line) THEN 2 ELSE 1)))

\* the index of the first line behind line k (0-based) that does not start
\* with >, or the number of lines
QuoteEnd(ls, k) ==
  CHOOSE e \in (k + 1)..Len(ls) :
    /\ \A m \in (k + 2)..e : At(ls[m], 0) = ">"
    /\ e < Len(ls) => At(ls[e + 1], 0) # ">"

\* the lines k+1 .. e-1 (0-based) without their >, and the whitespace behind it
QuoteBody(ls, k, e) == [m \in 1..(e - k - 1) |-> TrimStart(SliceFrom(ls[k + 1 + m], 1))]

TableHeaders ==
  { <<"a", "|", "b">>, <<"|", " ", "a", " ", "|", " ", "*", "*", "b", "*", "*", " ", "|">>,
    <<"a", "|", "b", "|", "c">>, <<"#", " ", "a", "|", "b">>, <<"|", "a", "|">> }

TableSeconds ==
  { <<":", "-", "|", "-", ":">>,
    <<"|", ":", "-", ":", "|", "-", "-", "-", "|">>,
    <<":", "-", "-", " ", "|", " ", ":", "-", ":", "|", "-", "-", ":">>,
    <<"-", "|", "-", "|">>, <<"-", " ", "|", " ", "x">>, <<"-", "-", "-">> }

TableRows ==
  { <<"c", "|", "d">>, <<"|", "e">>, <<"f", "|", "g", "|", "h", "|", "k">>,
    <<"#", " ", "a", "|", "b">>, <<"x">>, <<>> }

TableDocs ==
  {Doc(<<h, d>> \o rest) :
     h \in TableHeaders, d \in TableSeconds, rest \in SeqsFrom0(TableRows, MaxLines - 1)}

InitTable == \E input \in TableDocs : Start(input)

SpecTable == InitTable /\ [][Next]_vars

\* the number of | characters of a line
RECURSIVE Pipes(_)
Pipes(line) ==
  IF line = <<>> THEN 0 ELSE (IF Head(line) = "|" THEN 1 ELSE 0) + Pipes(Tail(line))

\* the line without one leading and one trailing |
Unframed(line) ==
  LET a == IF At(line, 0) = "|" THEN Tail(line) ELSE line
  IN IF a # <<>> /\ a[Len(a)] = "|" THEN SubSeq(a, 1, Len(a) - 1) ELSE a

\* the number of columns of a line: its cells are separated by |
Columns(line) == Pipes(Unframed(line)) + 1

\* the text of column c of a line, without the whitespace around it
RECURSIVE CellText(_, _)
CellText(row, c) ==
  IF c = 1 THEN Trim(IF Includes(row, "|") THEN Slice(row, 0, IndexOf(row, <<"|">>, 0)) ELSE row)
  ELSE CellText(SliceFrom(row, IndexOf(row, <<"|">>, 0) + 1), c - 1)

\* dashes with an optional colon at either end
IsDashes(cell) ==
  LET a == IF At(cell, 0) = ":" THEN Tail(cell) ELSE cell
      b == IF a # <<>> /\ a[Len(a)] = ":" THEN SubSeq(a, 1, Len(a) - 1) ELSE a
  IN b # <<>> /\ \A k \in 1..Len(b) : b[k] = "-"

\* a delimiter row: two or more columns, each of them dashes
DelimiterShaped(line) ==
  /\ Columns(line) >= 2
  /\ \A c \in 1..Columns(line) : IsDashes(CellText(Unframed(line), c))

\* :-- left, :--: center, --: right, --- none
AlignOf(cell) ==
  IF At(cell, 0) = ":" /\ cell[Len(cell)] = ":" THEN <<"center">>
  ELSE IF At(cell, 0) = ":" THEN <<"left">>
  ELSE IF cell[Len(cell)] = ":" THEN <<"right">>
  ELSE Undefined

\* the line is left to the table rule by the rules before it
ReachesTableRule(line) ==
  /\ ~IsBlank(line) /\ ~IsHorizontalRule(line) /\ ~HeadingMatch(line).ok
  /\ ~IsFence(line) /\ At(line, 0) # ">"

\* the index of the first line from k (0-based) on that has no |, or the
\* number of lines
RowsEnd(ls, k) ==
  CHOOSE e \in k..Len(ls) :
    /\ \A m \in (k + 1)..e : Pipes(ls[m]) > 0
    /\ e < Len(ls) => Pipes(ls[e + 1]) = 0

\* a header line of n >= 2 columns directly followed by a delimiter row of n
\* columns, at the cursor of the block loop
AtTable ==
  /\ pc = "blocks"
  /\ i + 1 < Len(lines)
  /\ ReachesTableRule(lines[i + 1])
  /\ Columns(lines[i + 1]) >= 2
  /\ DelimiterShaped(lines[i + 2])
  /\ Columns(lines[i + 2]) = Columns(lines[i + 1])

\* the cells of a table row carry the alignments of the delimiter row's cells
Aligned(cells, delimiter) ==
  \A c \in 1..Len(cells) :
    c <= Columns(delimiter) => cells[c].align = AlignOf(CellText(Unframed(delimiter), c))

SetextLines ==
  { <<"a">>, <<"b", " ", "*", "*", "c", "*", "*">>, <<"-", "-", "-">>,
    <<"-", "-", "-", "-">>, <<"-", "-">>, <<"=">>, <<>>, <<"#", " ", "h">>,
    <<"-", " ", "i">>, <<"<", "p", ">">>, <<"a", "|", "b">>, <<" ", "-", "-", "-">> }

SetextDocs == {Doc(ls) : ls \in SeqsUpTo(SetextLines, MaxLines)}

InitSetext == \E input \in SetextDocs : Start(input)

SpecSetext == InitSetext /\ [][Next]_vars

\* the line consists solely of three or more -
IsDashes3(line) == Len(line) >= 3 /\ \A k \in 1..Len(line) : line[k] = "-"

\* the line consists solely of =
IsEquals(line) == Len(line) >= 1 /\ \A k \in 1..Len(line) : line[k] = "="

\* the lines are the text of one paragraph: none is blank, none after the
\* first is an underline (indented or not), and parsed on their own they give
\* one paragraph token
IsParagraphText(ls) ==
  /\ \A k \in 1..Len(ls) : ~IsBlank(ls[k])
  /\ \A k \in 2..Len(ls) : ~IsUnderline(Trim(ls[k]), "-") /\ ~IsUnderline(Trim(ls[k]), "=")
  /\ ~parseBlocks(ls).hang
  /\ Len(parseBlocks(ls).tokens) = 1
  /\ parseBlocks(ls).tokens[1].type = "paragraph"

\* the lines e+1 .. e+n of ls (e 0-based)
LinesFrom(ls, e, n) == SubSeq(ls, e + 1, e + n)

\* at the cursor, n >= 1 lines of paragraph text are directly followed by an
\* underline of three or more - or of =
AtSetext(n) ==
  /\ pc = "blocks"
  /\ n >= 1 /\ i + n < Len(lines)
  /\ IsParagraphText(LinesFrom(lines, i, n))
  /\ IsDashes3(lines[i + n + 1]) \/ IsEquals(lines[i + n + 1])

FenceLines ==
  { <<Backtick, Backtick, Backtick>>, <<Backtick, Backtick, Backtick, "j", "s", " ">>,
    <<"~", "~", "~">>, <<"~", "~", "~", "~", "x">>,
    <<"a">>, <<>>, <<" ", Backtick, Backtick, Backtick>>, <<"#", " ", "h">> }

FenceDocs == {Doc(ls) : ls \in SeqsUpTo(FenceLines, MaxLines + 1)}

InitFence == \E input \in FenceDocs : Start(input)

SpecFence == InitFence /\ [][Next]_vars

\* the line starts with three backquotes or with three tildes
IsFenceLine(line) ==
  /\ Len(line) >= 3
  /\ line[1] \in {Backtick, "~"} /\ line[2] = line[1] /\ line[3] = line[1]

\* the index (0-based) of the first line behind line k that starts with the
\* three fence characters of line k, or the number of lines when there is none
FenceClose(ls, k) ==
  CHOOSE e \in (k + 1)..Len(ls) :
    /\ \A m \in (k + 2)..e : Slice(ls[m], 0, 3) # Slice(ls[k + 1], 0, 3)
    /\ e < Len(ls) => Slice(ls[e + 1], 0, 3) = Slice(ls[k + 1], 0, 3)

\* the rest of the opening line without the whitespace around it
FenceLanguage(line) == Trim(SliceFrom(line, 3))

(***************************************************************************)
(* C12.  A line starting with three backquotes or three tildes opens a     *)
(* code_block whose language is the trimmed rest of that line (absent when *)
(* empty) and whose content is exactly the following lines, unmodified and *)
(* joined with newlines, up to but excluding the first later line that     *)
(* starts with the same three fence characters; a line starting with the   *)
(* other fence character does not close it; when no closing line exists    *)
(* the content runs to the end of the input; the closing line yields no    *)
(* token: the cursor ends behind it.                                       *)
(***************************************************************************)
C12_FencedCode ==
  (pc = "blocks" /\ i < Len(lines) /\ IsFenceLine(lines[i + 1]))
    => /\ ~BlockStep(lines, i).hang
       /\ BlockStep(lines, i).next = FenceClose(lines, i) + 1
       /\ BlockStep(lines, i).toks =
            << [type |-> "code_block",
                language |-> IF FenceLanguage(lines[i + 1]) = <<>> THEN Undefined
                             ELSE <<FenceLanguage(lines[i + 1])>>,
                content |-> Join(SubSeq(lines, i + 2, FenceClose(lines, i)), <<"\n">>)] >>

\* an opening line of backquotes with a language, a line of tildes, a closing
\* line of backquotes and a line of text have been parsed: a code block with
\* the language js whose content is the line of tildes, and a paragraph
C12_Witness ==
  /\ pc = "parsed"
  /\ Len(lines) = 4
  /\ lines[1] = <<Backtick, Backtick, Backtick, "j", "s", " ">>
  /\ lines[2] = <<"~", "~", "~">>
  /\ lines[3] = <<Backtick, Backtick, Backtick>>
  /\ lines[4] = <<"a">>
  /\ Len(tokens) = 2
  /\ tokens[1] = [type |-> "code_block", language |-> << <<"j", "s">> >>,
                  content |-> <<"~", "~", "~">>]
  /\ tokens[2].type = "paragraph"

(***************************************************************************)
(* Line break inputs: documents of at most MaxLines lines out of lines     *)
(* that end in two or three spaces, in a backslash, or in neither.         *)
(***************************************************************************)
BreakLines ==
  { <<"a", " ", " ">>, <<"a", "\\">>, <<"a", " ", "b", " ", " ", " ">>,
    <<"b">>, <<"a", " ">>, <<>> }

BreakDocs == {Doc(ls) : ls \in SeqsUpTo(BreakLines, MaxLines)}

InitBreaks == \E input \in BreakDocs : Start(input)

SpecBreaks == InitBreaks /\ [][Next]_vars

\* the number of characters of the hard-line-break marker a line ends in: 2
\* for two spaces, 1 for a backslash, 0 for neither
BreakMarker(line) ==
  IF Len(line) >= 2 /\ line[Len(line)] = " " /\ line[Len(line) - 1] = " " THEN 2
  ELSE IF Len(line) >= 1 /\ line[Len(line)] = "\\" THEN 1
  ELSE 0

\* the line without its marker
BeforeMarker(line) == SubSeq(line, 1, Len(line) - BreakMarker(line))

\* a paragraph of two lines has been parsed, the first of which ends in a
\* marker behind some text
BrokenParagraph ==
  /\ pc = "parsed"
  /\ Len(lines) = 2
  /\ BreakMarker(lines[1]) > 0 /\ BeforeMarker(lines[1]) # <<>>
  /\ lines[2] # <<>>

(***************************************************************************)
(* C13.  Inside paragraph text, both hard-line-break forms produce a       *)
(* linebreak token at that position with the marker consumed: a line       *)
(* ending in two spaces followed by a newline, and a line ending in a      *)
(* backslash followed by a newline.  For a paragraph of two lines, the     *)
(* children are the text before the marker, a linebreak token and the text *)
(* of the second line.                                                     *)
(***************************************************************************)
C13_HardLineBreaks ==
  BrokenParagraph
    => tokens = << [type |-> "paragraph",
                    children |-> << [type |-> "text", content |-> BeforeMarker(lines[1])],
                                    [type |-> "linebreak"],
                                    [type |-> "text", content |-> lines[2]] >>] >>

\* the callout line with the other fold marker: + for -, - for +
OtherMarker(line) ==
  [k \in 1..Len(line) |->
     IF k = IndexOf(line, <<"]">>, 0) + 2 THEN (IF line[k] = "+" THEN "-" ELSE "+")
     ELSE line[k]]

\* the lines with line k (0-based) replaced by the line with the other marker
WithOtherMarker(ls, k) == [m \in 1..Len(ls) |-> IF m = k + 1 THEN OtherMarker(ls[m]) ELSE ls[m]]

\* the block loop stands at a callout line that has a fold marker, and the
\* iteration returns
AtFoldableCallout ==
  /\ pc = "blocks" /\ i < Len(lines)
  /\ IsCalloutLine(lines[i + 1]) /\ CalloutFolds(lines[i + 1])
  /\ ~BlockStep(lines, i).hang

(***************************************************************************)
(* C14.  A callout written with the + marker is foldable and open by       *)
(* default, and one written with the - marker is foldable and closed by    *)
(* default: the callout token of a line with a marker is foldable, and it  *)
(* differs from the token of the same callout written with the other       *)
(* marker.                                                                 *)
(***************************************************************************)
C14_FoldMarkerKept ==
  AtFoldableCallout
    => /\ BlockStep(lines, i).toks[1].foldable
       /\ BlockStep(lines, i).toks # BlockStep(WithOtherMarker(lines, i), i).toks

(***************************************************************************)
(* Renderer inputs: documents of at most MaxLines lines with a list, a     *)
(* table, a heading with bold text and a quoted wikilink, rendered with    *)
(* the Solid renderer under several sets of overrides.                     *)
(***************************************************************************)
SolidLines ==
  { <<"-", " ", "a">>, <<"a", "|", "b">>, <<"-", "|", "-">>,
    <<"#", " ", "h", " ", "*", "*", "b", "*", "*">>,
    <<">", " ", "[", "[", "w", "]", "]">>, <<>> }

SolidDocs == {Doc(ls) : ls \in SeqsUpTo(SolidLines, MaxLines)}

SolidOverrides ==
  { {}, {"list_item"}, {"table_cell"}, {"heading", "wikilink"}, {"list", "table", "text"},
    InlineKeys \cup BlockKeys }

InitSolid ==
  \E input \in SolidDocs, given \in SolidOverrides :
    /\ markdown = input
    /\ pc = "start"
    /\ frontmatter = EmptyFrontmatter
    /\ lines = <<>>
    /\ i = 0
    /\ tokens = <<>>
    /\ out = cfgJoin(<<>>)
    /\ overrides = given
    /\ pages = <<>>
    /\ db = <<>>
    /\ result = Undefined
    /\ files = <<>>
    /\ scanned = 0

SpecSolid == InitSolid /\ [][NextSolid]_vars

\* the number of calls of the function of the given key among the calls of a
\* joined output, the outputs nested in them included
RECURSIVE CallsOfJoins(_, _), CallsOfNodes(_, _)
CallsOfNode(node, key) ==
  (IF node.fn = key THEN 1 ELSE 0)
    + (IF node.table = "block" /\ node.fn = "table"
       THEN CallsOfJoins(node.inner[1], key)
              + CallsOfJoins(Flatten(node.inner[2]), key)
       ELSE CallsOfJoins(node.inner, key))

CallsOfNodes(nodes, key) ==
  IF nodes = <<>> THEN 0
  ELSE CallsOfNode(Head(nodes), key) + CallsOfNodes(Tail(nodes), key)

CallsOfJoins(joins, key) ==
  IF joins = <<>> THEN 0
  ELSE CallsOfNodes(Head(joins).join, key) + CallsOfJoins(Tail(joins), key)

\* the number of elements of the given key in a token tree: tokens of that
\* type, items of lists for list_item, cells of tables for table_cell
RECURSIVE InlineElements(_, _), BlockElements(_, _), ItemElements(_, _)
InlineElements(toks, key) ==
  IF toks = <<>> THEN 0
  ELSE (IF Head(toks).type = key THEN 1 ELSE 0)
         + (IF Head(toks).type \in {"bold", "italic", "bold_italic", "strikethrough",
                                    "highlight", "link"}
            THEN InlineElements(Head(toks).children, key) ELSE 0)
         + InlineElements(Tail(toks), key)

CellElements(cells, key) ==
  (IF key = "table_cell" THEN Len(cells) ELSE 0)
    + InlineElements(Flatten([c \in 1..Len(cells) |-> cells[c].children]), key)

ItemElements(items, key) ==
  IF items = <<>> THEN 0
  ELSE (IF key = "list_item" THEN 1 ELSE 0)
         + BlockElements(Head(items).children, key) + ItemElements(Tail(items), key)

BlockElements(toks, key) ==
  IF toks = <<>> THEN 0
  ELSE (IF Head(toks).type = key THEN 1 ELSE 0)
         + (CASE Head(toks).type \in {"paragraph", "heading"}
                   -> InlineElements(Head(toks).children, key)
              [] Head(toks).type \in {"blockquote", "callout"}
                   -> BlockElements(Head(toks).children, key)
              [] Head(toks).type = "list" -> ItemElements(Head(toks).items, key)
              [] Head(toks).type = "table"
                   -> CellElements(Head(toks).header, key)
                        + CellElements(Flatten(Head(toks).rows), key)
              [] OTHER -> 0)
         + BlockElements(Tail(toks), key)

\* the entry of the renderer's tables for a key
EntryOf(renderer, key) ==
  IF key \in InlineKeys THEN renderer.inline[key] ELSE renderer.block[key]

(***************************************************************************)
(* C15.  For every element key accepted in createSolidRenderer's overrides *)
(* (the inline keys and the block keys, list_item and table_cell           *)
(* included), supplying an override makes render call that function for    *)
(* every token of that element, and every key that is not overridden keeps *)
(* its default renderer.                                                   *)
(***************************************************************************)
C15_OverridesCalled ==
  pc = "solid"
    => \A key \in InlineKeys \cup BlockKeys :
         IF key \in overrides
         THEN /\ EntryOf(out.renderer, key) = "override"
              /\ CallsOfJoins(<<out.calls>>, key) = BlockElements(tokens, key)
         ELSE EntryOf(out.renderer, key) = "default"

(***************************************************************************)
(* The vault: at most MaxPages collected pages, with names that differ in  *)
(* case only among them and links to themselves, to each other in either   *)
(* case and to pages outside the vault; the table is empty or holds rows   *)
(* of an earlier sync.                                                     *)
(***************************************************************************)
MaxPages == 3

PageNames == { <<"A">>, <<"a">>, <<"B">>, <<"c">> }

PageLinks ==
  { <<>>, <<<<"B">>, <<"c">>>>, <<<<"b">>, <<"A">>, <<"x">>, <<"B">>>> }

CollectedPages ==
  [name : PageNames, content : {<<"n">>}, links : PageLinks, backlinks : {<<>>}]

Row(id, name, backlinks) ==
  [id |-> id, name |-> name, content |-> <<"o">>, updated_at |-> "old",
   backlinks |-> backlinks]

Tables ==
  { <<>>,
    <<Row(1, <<"a">>, <<JSONStringify(<<<<"B">>>>)>>), Row(2, <<"B">>, Undefined)>> }

InitVault ==
  \E collected \in SeqsFrom0(CollectedPages, MaxPages), rows \in Tables :
    /\ markdown = <<>>
    /\ pc = "collected"
    /\ frontmatter = EmptyFrontmatter
    /\ lines = <<>>
    /\ i = 0
    /\ tokens = <<>>
    /\ out = cfgJoin(<<>>)
    /\ overrides = {}
    /\ pages = collected
    /\ db = rows
    /\ result = Undefined
    /\ files = <<>>
    /\ scanned = 0

SpecVault == InitVault /\ [][NextVault]_vars

\* the pages have pairwise distinct names, compared ignoring case
DistinctNames(ps) ==
  \A m, n \in 1..Len(ps) : ToLowerCase(ps[m].name) = ToLowerCase(ps[n].name) => m = n

\* page a links to page b
LinksTo(a, b) == \E k \in 1..Len(a.links) : ToLowerCase(a.links[k]) = ToLowerCase(b.name)

\* page c is a linker of page b or a sibling of it
Related(ps, c, b) ==
  \/ LinksTo(c, b)
  \/ \E m \in 1..Len(ps) :
       LinksTo(ps[m], b) /\ LinksTo(ps[m], c) /\ ToLowerCase(b.name) # ToLowerCase(c.name)

Listed(names, name) == \E k \in 1..Len(names) : names[k] = name

StoredBacklinks(row) ==
  IF row.backlinks = Undefined THEN {} ELSE Range(row.backlinks[1].json)

\* the rows of the table whose name is the given one, ignoring case
RowsNamed(name) == {k \in 1..Len(db) : ToLowerCase(db[k].name) = ToLowerCase(name)}

\* C17: after the POST /api/sync request of a batch of pages with pairwise
\* distinct names, every page of the batch has a row, and the backlinks that the
\* row stores are the backlinks sent for the page in the request
C17_StoredBacklinks ==
  (pc = "synced" /\ DistinctNames(pages)) =>
    \A p \in 1..Len(pages) :
      /\ RowsNamed(pages[p].name) # {}
      /\ \A k \in RowsNamed(pages[p].name) :
           StoredBacklinks(db[k]) = Range(pages[p].backlinks)

(***************************************************************************)
(* The files of the vault: at most MaxFiles markdown files, tagged for     *)
(* publishing or not, whose names start with an ID prefix of two-digit     *)
(* groups, with a prefix of another form, or with none.                    *)
(***************************************************************************)
MaxFiles == 2

FilePrefixes ==
  { <<>>,
    <<"0", "4", ".", "9", "9", ".", "0", "6", " ">>,
    <<"0", "4", ".", "9", "9", ".", "0", "6", "\t", " ">>,
    <<"0", "4", ".", "9", "9", ".", "0", "6">>,
    <<"4", ".", "9", "9", ".", "0", "6", " ">>,
    <<"0", "4", ".", "9", ".", "0", "6", " ">>,
    <<"0", "4", ".", "9", "9", ".", "1", "2", "3", "4", " ">>,
    <<"0", "4", "-", "9", "9", "-", "0", "6", " ">> }

FileTitles == { <<"T">>, <<"x", ".", "m", "d">> }

FileNames == {p \o t \o <<".", "m", "d">> : p \in FilePrefixes, t \in FileTitles}

VaultFiles ==
  [filename : FileNames,
   content : {<<"n">>, <<"#", "w", "i", "k", "i", "\n", "n">>, <<"n", " ", "#", "w", "i", "k", "i", "s">>}]

InitCollect ==
  \E found \in SeqsFrom0(VaultFiles, MaxFiles) :
    /\ markdown = <<>>
    /\ pc = "collecting"
    /\ frontmatter = EmptyFrontmatter
    /\ lines = <<>>
    /\ i = 0
    /\ tokens = <<>>
    /\ out = cfgJoin(<<>>)
    /\ overrides = {}
    /\ pages = <<>>
    /\ db = <<>>
    /\ result = Undefined
    /\ files = found
    /\ scanned = 0

SpecCollect == InitCollect /\ [][NextCollect]_vars

\* s starts with two digits, a dot, two digits, a dot, two digits and whitespace
HasIdPrefix(s) ==
  /\ \A k \in {0, 1, 3, 4, 6, 7} : IsDigit(At(s, k))
  /\ At(s, 2) = "." /\ At(s, 5) = "."
  /\ IsSpace(At(s, 8))

\* the title as stated: the name without a trailing .md, and without its ID
\* prefix and the whitespace after it when it has one
TitleAsStated(filename) ==
  IF HasIdPrefix(Slice(filename, 0, Len(filename) - 3))
  THEN TrimStart(SliceFrom(Slice(filename, 0, Len(filename) - 3), 8))
  ELSE Slice(filename, 0, Len(filename) - 3)

RECURSIVE TitlesAsStated(_)
TitlesAsStated(fs) ==
  IF fs = <<>> THEN <<>>
  ELSE (IF hasPublishTag(Head(fs).content, DEFAULT_TAG) THEN <<TitleAsStated(Head(fs).filename)>> ELSE <<>>)
       \o TitlesAsStated(Tail(fs))

\* C18: the name of every collected page is the file name without its trailing
\* .md, and without its leading prefix only when the prefix is three two-digit
\* groups separated by dots and followed by whitespace
C18_ParseTitle ==
  [k \in 1..Len(pages) |-> pages[k].name] = TitlesAsStated(Slice(files, 0, scanned))

\* a line containing | at the cursor of the block loop, left to the table rule
\* by the rules before it, whose next line is missing, is no delimiter row, or
\* has another number of columns
AtNoTable ==
  /\ pc = "blocks"
  /\ i < Len(lines)
  /\ ReachesTableRule(lines[i + 1])
  /\ Pipes(lines[i + 1]) > 0
  /\ \/ i + 1 = Len(lines)
     \/ ~DelimiterShaped(lines[i + 2])
     \/ Columns(lines[i + 2]) # Columns(lines[i + 1])

\* the line matches a rule between the table rule and the paragraph rule: it
\* is a list item or starts an HTML block
MatchesLaterRule(line) ==
  \/ ListMatch(line).ok
  \/ At(Trim(line), 0) = "<" /\ isHtmlBlock(line)

\* C19: a line containing | whose next line is missing, is not a delimiter row
\* or has a different column count gives no table token, and when it is no list
\* item and no HTML block the iteration at it ends with one token of the
\* paragraph rule that starts with the line: a paragraph of the lines taken, or
\* the setext heading that the paragraph rule makes of them
C19_NoTableIsParagraph ==
  AtNoTable
    => /\ \A t \in 1..Len(BlockStep(lines, i).toks) :
            BlockStep(lines, i).toks[t].type # "table"
       /\ ~MatchesLaterRule(lines[i + 1])
            => /\ ~BlockStep(lines, i).hang
               /\ Len(BlockStep(lines, i).toks) = 1
               /\ BlockStep(lines, i).next > i
               /\ BlockStep(lines, i).toks[1].type \in {"paragraph", "heading"}
               /\ BlockStep(lines, i).toks[1].type = "paragraph"
                    => BlockStep(lines, i).toks[1].children
                         = parseInline(Join(Slice(lines, i, BlockStep(lines, i).next),
                                            <<"\n">>))

(***************************************************************************)
(* Lists: bullet items and numbered items at the same and at a deeper      *)
(* indentation, a paragraph line and a blank line.                         *)
(***************************************************************************)
ListLines ==
  { <<"-", " ", "a">>, <<"*", " ", "b">>, <<"1", ".", " ", "c">>, <<"2", ".", " ", "d">>,
    <<" ", " ", "-", " ", "e">>, <<" ", " ", "3", ".", " ", "f">>, <<"x">>, <<>> }

ListDocs == {Doc(ls) : ls \in SeqsUpTo(ListLines, MaxLines)}

InitList == \E input \in ListDocs : Start(input)

SpecList == InitList /\ [][Next]_vars

\* the indentation of a line
Indent(line) == RunLen(line, 0, SpaceChars)

\* a line marked with -, * or + and whitespace
IsBulletLine(line) ==
  At(line, Indent(line)) \in {"-", "*", "+"} /\ IsSpace(At(line, Indent(line) + 1))

\* a line marked with a number, a dot and whitespace
IsNumberedLine(line) ==
  /\ RunLen(line, Indent(line), Range(Digits)) >= 1
  /\ At(line, Indent(line) + RunLen(line, Indent(line), Range(Digits))) = "."
  /\ IsSpace(At(line, Indent(line) + RunLen(line, Indent(line), Range(Digits)) + 1))

\* a list line at the cursor of the block loop, directly followed by a list line
\* of the other marker class at the same indentation
AtMarkerChange ==
  /\ pc = "blocks"
  /\ i + 1 < Len(lines)
  /\ Indent(lines[i + 1]) = Indent(lines[i + 2])
  /\ \/ IsBulletLine(lines[i + 1]) /\ IsNumberedLine(lines[i + 2])
     \/ IsNumberedLine(lines[i + 1]) /\ IsBulletLine(lines[i + 2])

\* C20: a bullet line and a numbered line at the same indentation are not items
\* of one list token: the list that starts at the first of them ends before
\* the second, which starts a list of its own
C20_MarkerClass ==
  AtMarkerChange
    => /\ ~BlockStep(lines, i).hang
       /\ Len(BlockStep(lines, i).toks) = 1
       /\ BlockStep(lines, i).toks[1].type = "list"
       /\ BlockStep(lines, i).toks[1].ordered = IsNumberedLine(lines[i + 1])
       /\ Len(BlockStep(lines, i).toks[1].items) = 1
       /\ BlockStep(lines, i).next = i + 1

(***************************************************************************)
(* Escaped closing delimiters: an opening delimiter, text, the delimiter   *)
(* preceded by a backslash, text, and then the delimiter once more or      *)
(* nothing.                                                                *)
(***************************************************************************)
EscDelims ==
  { <<"*">>, <<"*", "*">>, <<"*", "*", "*">>, <<"_">>, <<"_", "_">>, <<"_", "_", "_">>,
    <<Backtick>>, <<Backtick, Backtick>> }

EscBefore == { <<"a">>, <<"a", " ", "b">> }

EscAfter == { <<"b">>, <<"b", " ", "a">> }

\* opening delimiter, text, escaped delimiter, text
EscOpen(d, x, y) == d \o x \o <<"\\">> \o d \o y

EscapedDocs ==
  UNION {{EscOpen(d, x, y), EscOpen(d, x, y) \o d} :
           d \in EscDelims, x \in EscBefore, y \in EscAfter}

InitEscaped == \E input \in EscapedDocs : Start(input)

SpecEscaped == InitEscaped /\ [][Next]_vars

\* the token type of the construct that a delimiter opens
ConstructOf(d) ==
  IF d[1] = Backtick THEN "code"
  ELSE IF Len(d) = 1 THEN "italic" ELSE IF Len(d) = 2 THEN "bold" ELSE "bold_italic"

\* C21: in a paragraph that opens a bold, italic, bold-italic or code construct
\* and holds the delimiter preceded by a backslash, the construct closes at the
\* later unescaped delimiter and holds everything before it (for a code span as
\* its content), or, when there is no later delimiter, the paragraph is text only
C21_EscapedDelimiter ==
  pc = "parsed" =>
    \A d \in EscDelims, x \in EscBefore, y \in EscAfter :
      /\ markdown = EscOpen(d, x, y)
           => /\ Len(tokens) = 1
              /\ tokens[1].type = "paragraph"
              /\ \A k \in 1..Len(tokens[1].children) : tokens[1].children[k].type = "text"
      /\ markdown = EscOpen(d, x, y) \o d
           => /\ Len(tokens) = 1
              /\ tokens[1].type = "paragraph"
              /\ Len(tokens[1].children) = 1
              /\ tokens[1].children[1].type = ConstructOf(d)
              /\ ConstructOf(d) = "code"
                   => tokens[1].children[1].content = x \o <<"\\">> \o d \o y

(***************************************************************************)
(* Inline texts: at most MaxSpans pieces of plain text, whitespace, a      *)
(* backslash, emphasis and code delimiters, a bracketed text, an address   *)
(* in parentheses and a hard line break.                                   *)
(***************************************************************************)
MaxSpans == 4

InlinePieces ==
  { <<"a">>, <<" ">>, <<"\\">>, <<"*">>, <<Backtick>>, <<"[", "a", "]">>, <<"(", "b", ")">>,
    <<" ", " ", "\n">> }

InlineDocs == {Flatten(ps) : ps \in SeqsUpTo(InlinePieces, MaxSpans)}

InitInline == \E input \in InlineDocs : Start(input)

SpecInline == InitInline /\ [][Next]_vars

\* the source spans [from, to) of the tokens of one scan, in the order of the
\* scan: the span of a construct runs from its first character to the character
\* after its close, the span of a text run between two constructs
RECURSIVE SpansFrom(_, _, _, _)
SpanOfRule(text, k, textStart, spans, m) ==
  IF m.rule = "none" THEN SpansFrom(text, k + 1, textStart, spans)
  ELSE SpansFrom(text, m.next, m.next,
                 (IF k > textStart
                  THEN Append(spans, [rule |-> "text", from |-> textStart, to |-> k])
                  ELSE spans)
                 \o <<[rule |-> m.rule, from |-> k, to |-> m.next]>>)

SpansFrom(text, k, textStart, spans) ==
  IF k >= Len(text)
  THEN IF Len(text) > textStart
       THEN Append(spans, [rule |-> "text", from |-> textStart, to |-> Len(text)])
       ELSE spans
  ELSE SpanOfRule(text, k, textStart, spans, RuleAt(text, k))

\* the spans are consecutive from 0 to n, none of them empty
Consecutive(spans, n) ==
  /\ spans = <<>> => n = 0
  /\ spans # <<>> => spans[1].from = 0 /\ spans[Len(spans)].to = n
  /\ \A k \in 1..Len(spans) : spans[k].from < spans[k].to
  /\ \A k \in 1..(Len(spans) - 1) : spans[k].to = spans[k + 1].from

\* token by token, the emitted tokens are those of the spans: a text token
\* holds its span, the token of an escape pair the escaped character
SpansMatch(text, emitted, spans) ==
  /\ Len(emitted) = Len(spans)
  /\ \A k \in 1..Len(spans) :
       /\ spans[k].rule = "text"
            => emitted[k] = TextTok(Slice(text, spans[k].from, spans[k].to))
       /\ spans[k].rule = "escape"
            => /\ spans[k].to = spans[k].from + 2
               /\ emitted[k] = TextTok(<<At(text, spans[k].from + 1)>>)
       /\ spans[k].rule \notin {"text", "escape"}
            => emitted[k].type = (IF spans[k].rule = "autolink" THEN "link" ELSE spans[k].rule)

\* every line of the document has been taken into one paragraph
OneParagraph ==
  /\ pc = "parsed"
  /\ Len(tokens) = 1
  /\ tokens[1].type = "paragraph"
  /\ \A l \in 1..Len(lines) : ~IsBlank(lines[l])

\* C22: the tokens that one scan of a paragraph's text emits correspond, in
\* order, to consecutive source spans from position 0 to the length of the
\* text; a text token holds exactly its span, the token of an escape pair the
\* escaped character alone; the paragraph's children are those tokens merged
C22_SpansCover ==
  OneParagraph
    => /\ Consecutive(SpansFrom(Join(lines, <<"\n">>), 0, 0, <<>>),
                      Len(Join(lines, <<"\n">>)))
       /\ SpansMatch(Join(lines, <<"\n">>),
                     Scan(Join(lines, <<"\n">>), 0, 0, <<>>),
                     SpansFrom(Join(lines, <<"\n">>), 0, 0, <<>>))
       /\ tokens[1].children = mergeTextTokens(Scan(Join(lines, <<"\n">>), 0, 0, <<>>))

\* "a\*a" has been parsed: the scan emits the text a, the escaped asterisk
\* and the text a, which the paragraph holds merged into one text token
C22_Witness ==
  /\ OneParagraph
  /\ [k \in 1..Len(SpansFrom(Join(lines, <<"\n">>), 0, 0, <<>>)) |->
        SpansFrom(Join(lines, <<"\n">>), 0, 0, <<>>)[k].rule]
       = <<"text", "escape", "text">>
  /\ tokens[1].children = <<TextTok(<<"a", "*", "a">>)>>

\* no two adjacent text tokens and no empty text token, in the sequence and in
\* the children of its emphasis and link tokens
RECURSIVE InlineSimple(_)
InlineSimple(toks) ==
  /\ \A k \in 1..Len(toks) :
       /\ toks[k].type = "text" => toks[k].content # <<>>
       /\ (toks[k].type = "text" /\ k < Len(toks)) => toks[k + 1].type # "text"
       /\ HasChildren(toks[k].type) => InlineSimple(toks[k].children)

\* the same for every inline sequence held by a sequence of block tokens
RECURSIVE BlocksSimple(_)
BlocksSimple(toks) ==
  \A k \in 1..Len(toks) :
    /\ toks[k].type \in {"paragraph", "heading"} => InlineSimple(toks[k].children)
    /\ toks[k].type \in {"blockquote", "callout"} => BlocksSimple(toks[k].children)
    /\ toks[k].type = "list"
         => \A m \in 1..Len(toks[k].items) : BlocksSimple(toks[k].items[m].children)
    /\ toks[k].type = "table"
         => /\ \A c \in 1..Len(toks[k].header) : InlineSimple(toks[k].header[c].children)
            /\ \A r \in 1..Len(toks[k].rows) :
                 \A c \in 1..Len(toks[k].rows[r]) : InlineSimple(toks[k].rows[r][c].children)

\* C23: in the tokens that parse returns, every inline token sequence, at every
\* nesting level, has no two adjacent text tokens and no text token with empty
\* content
C23_TextMerged == pc = "parsed" => BlocksSimple(tokens)

\* "\*a(b)" has been parsed: the scan emits the escaped asterisk and the text
\* after it, and the paragraph holds them as one text token
C23_Witness ==
  /\ pc = "parsed"
  /\ Len(Scan(markdown, 0, 0, <<>>)) = 2
  /\ tokens = <<ParagraphTok(<<TextTok(<<"*", "a", "(", "b", ")">>)>>)>>

(***************************************************************************)
(* Quoted documents: every line of a sequence of lines L, prefixed with    *)
(* "> ".  L holds list items, an indented list item, a fence, an indented  *)
(* line, a paragraph line and a blank line.                                *)
(***************************************************************************)
QuotedLines ==
  { <<"-", " ", "a">>, <<" ", " ", "-", " ", "e">>, <<Backtick, Backtick, Backtick>>,
    <<" ", " ", "c">>, <<"x">>, <<"#", " ", "h">>, <<>> }

Quoted(ls) == [k \in 1..Len(ls) |-> <<">", " ">> \o ls[k]]

QuotedDocs == {Doc(Quoted(ls)) : ls \in SeqsUpTo(QuotedLines, MaxLines)}

InitQuoted == \E input \in QuotedDocs : Start(input)

SpecQuoted == InitQuoted /\ [][Next]_vars

\* the lines L of a quoted document
Unquoted(ls) == [k \in 1..Len(ls) |-> SliceFrom(ls[k], 2)]

\* C24: the parse of the lines L, each prefixed with "> ", returns exactly one
\* blockquote token whose children are the block parse of L, and it returns
\* whenever the block parse of L does
C24_NestedAsTopLevel ==
  /\ pc = "parsed" => tokens = <<BlockquoteTok(parseBlocks(Unquoted(lines)).tokens)>>
  /\ pc = "hung" => parseBlocks(Unquoted(lines)).hang

(***************************************************************************)
(* Paragraphs before other blocks: a line of text, a second line that      *)
(* starts a block construct or continues the text, and up to MaxLines - 1  *)
(* further lines.                                                          *)
(***************************************************************************)
ParagraphSeconds ==
  { <<"*", "*", "*">>, <<"-", "-", "-">>, <<"#", " ", "h">>,
    <<Backtick, Backtick, Backtick>>, <<">", " ", "q">>,
    <<">", " ", "[", "!", "n", "o", "t", "e", "]">>, <<"a", "|", "b">>,
    <<"-", " ", "c">>, <<"1", ".", " ", "c">>, <<"<", "d", "i", "v", ">">>, <<"y">> }

ParagraphRest == { <<"-", "|", "-">>, <<"z">>, <<Backtick, Backtick, Backtick>>, <<>> }

ParagraphDocs ==
  {Doc(<<<<"x">>, second>> \o rest) :
     second \in ParagraphSeconds, rest \in SeqsFrom0(ParagraphRest, MaxLines - 1)}

InitParagraph == \E input \in ParagraphDocs : Start(input)

SpecParagraph == InitParagraph /\ [][Next]_vars

\* line k (1-based) of ls starts a block construct other than a paragraph
StartsOtherBlock(ls, k) ==
  \/ Len(ls[k]) >= 3 /\ \E c \in {"-", "*", "_"} : \A m \in 1..Len(ls[k]) : ls[k][m] = c
  \/ HeadingMatch(ls[k]).ok
  \/ IsFenceLine(ls[k])
  \/ At(ls[k], 0) = ">"
  \/ /\ Pipes(ls[k]) > 0
     /\ k < Len(ls)
     /\ DelimiterShaped(ls[k + 1])
     /\ Columns(ls[k + 1]) = Columns(ls[k])
  \/ IsBulletLine(ls[k]) \/ IsNumberedLine(ls[k])
  \/ At(Trim(ls[k]), 0) = "<" /\ isHtmlBlock(ls[k])

\* the cursor of the block loop is at a line of text that is directly followed
\* by a line that starts another block construct
AtParagraphBeforeBlock ==
  /\ pc = "blocks"
  /\ i + 1 < Len(lines)
  /\ lines[i + 1] = <<"x">>
  /\ StartsOtherBlock(lines, i + 2)

\* C25: a paragraph ends immediately before the first following line that
\* starts another block construct: the iteration at the paragraph yields the
\* paragraph of the lines before that line, and the iteration at that line
\* yields a block that is no paragraph
C25_ParagraphEnds ==
  AtParagraphBeforeBlock
    => /\ BlockStep(lines, i) = Step(i + 1, <<ParagraphTok(<<TextTok(<<"x">>)>>)>>)
       /\ ~BlockStep(lines, i + 1).hang
       /\ Len(BlockStep(lines, i + 1).toks) = 1
       /\ BlockStep(lines, i + 1).toks[1].type # "paragraph"

(***************************************************************************)
(* Nested lists: an item at the base indentation, a marker line indented   *)
(* by one to four spaces or not at all, and up to MaxLines - 1 further     *)
(* lines at the base indentation.                                          *)
(***************************************************************************)
NestedFirsts == { <<"-", " ", "a">>, <<"1", ".", " ", "a">> }

NestedMarkers == { <<"-", " ", "b">>, <<"2", ".", " ", "b">>, <<"*", " ", "[", "b", "]">> }

NestedIndents == { <<>>, <<" ">>, <<" ", " ">>, <<" ", " ", " ">>, <<" ", " ", " ", " ">> }

NestedRest == { <<"-", " ", "c">>, <<>> }

NestedDocs ==
  {Doc(<<first, indent \o marker>> \o rest) :
     first \in NestedFirsts, indent \in NestedIndents, marker \in NestedMarkers,
     rest \in SeqsFrom0(NestedRest, MaxLines - 1)}

InitNested == \E input \in NestedDocs : Start(input)

SpecNested == InitNested /\ [][Next]_vars

\* the text of a marker line after its indentation, marker and one whitespace
AfterMarker(line) ==
  IF IsBulletLine(line) THEN SliceFrom(line, Indent(line) + 2)
  ELSE SliceFrom(line, Indent(line) + RunLen(line, Indent(line), Range(Digits)) + 2)

\* a list item at the cursor of the block loop, directly followed by a marker
\* line that is indented more than it
AtNestedMarker ==
  /\ pc = "blocks"
  /\ i + 1 < Len(lines)
  /\ IsBulletLine(lines[i + 1]) \/ IsNumberedLine(lines[i + 1])
  /\ IsBulletLine(lines[i + 2]) \/ IsNumberedLine(lines[i + 2])
  /\ Indent(lines[i + 2]) > Indent(lines[i + 1])

\* C26: a marker line that directly follows an item and is indented more than
\* the list becomes the first item of a list among the children of that item,
\* of the marker's class, holding the block parse of the text after the marker
C26_NestedItem ==
  AtNestedMarker
    => /\ ~BlockStep(lines, i).hang
       /\ Len(BlockStep(lines, i).toks) = 1
       /\ BlockStep(lines, i).toks[1].type = "list"
       /\ \E c \in 1..Len(BlockStep(lines, i).toks[1].items[1].children) :
            /\ BlockStep(lines, i).toks[1].items[1].children[c].type = "list"
            /\ BlockStep(lines, i).toks[1].items[1].children[c].ordered
                 = IsNumberedLine(lines[i + 2])
            /\ BlockStep(lines, i).toks[1].items[1].children[c].items[1].children
                 = parseBlocks(<<AfterMarker(lines[i + 2])>>).tokens

\* the keys written in the region
KeysOf(ys) == {KeyOf(ys[j]) : j \in {m \in 1..Len(ys) : IsKeyValueLine(ys[m])}}

\* C27: in a frontmatter region, a key written with a value on its own line
\* keeps exactly that value whatever "- item" lines follow it; a key written
\* with an empty value maps to the list of the "- item" lines that follow it;
\* and "- item" lines make no other entry
C27_ItemsForEmptyKeysOnly ==
  (/\ pc = "parsed"
   /\ InputLines(markdown)[1] = <<"-", "-", "-">>
   /\ ClosingAt(InputLines(markdown)) # 0
   /\ KeysDistinct(RegionLines(InputLines(markdown))))
    => /\ DOMAIN frontmatter \subseteq KeysOf(RegionLines(InputLines(markdown)))
       /\ \A j \in 1..Len(RegionLines(InputLines(markdown))) :
            IsKeyValueLine(RegionLines(InputLines(markdown))[j])
              => IF ValueOf(RegionLines(InputLines(markdown))[j]) # <<>>
                 THEN MapsTo(frontmatter, KeyOf(RegionLines(InputLines(markdown))[j]),
                             ValueByKind(ValueOf(RegionLines(InputLines(markdown))[j])))
                 ELSE \/ /\ ItemsAfter(RegionLines(InputLines(markdown)), j) = <<>>
                         /\ KeyOf(RegionLines(InputLines(markdown))[j]) \notin DOMAIN frontmatter
                      \/ MapsTo(frontmatter, KeyOf(RegionLines(InputLines(markdown))[j]),
                                ListVal(ItemsAfter(RegionLines(InputLines(markdown)), j)))

(***************************************************************************)
(* POST /api/sync served repeatedly: each step is one request handled      *)
(* whole against the pages table left by the requests before it.           *)
(***************************************************************************)
\* the table holds at most this many rows when a request arrives
MaxRows == 3

\* the pages a request may carry: a name (possibly missing), content, links
SubmittedPages ==
  [name : {<<>>, <<"A">>, <<"a">>, <<"B">>}, content : {<<"n">>},
   links : {<<>>, <<<<"B">>>>}, backlinks : {<<>>}]

\* a body that is not JSON, a body without a pages array, and the batches of
\* at most two pages
Requests ==
  {[json |-> FALSE, pages |-> Undefined], [json |-> TRUE, pages |-> Undefined]}
    \cup {SyncRequest(batch) : batch \in SeqsFrom0(SubmittedPages, 2)}

\* the handler serves one request
ServePOST ==
  /\ pc = "serving"
  /\ Len(db) < MaxRows
  /\ \E request \in Requests :
       /\ db' = POST(db, request).db
       /\ result' = <<POST(db, request).response>>
  /\ UNCHANGED <<pc, pages, files, scanned>>
  /\ UNCHANGED parserVars

NextServe == ServePOST

InitServe ==
  \E rows \in Tables :
    /\ markdown = <<>>
    /\ pc = "serving"
    /\ frontmatter = EmptyFrontmatter
    /\ lines = <<>>
    /\ i = 0
    /\ tokens = <<>>
    /\ out = cfgJoin(<<>>)
    /\ overrides = {}
    /\ pages = <<>>
    /\ db = rows
    /\ result = Undefined
    /\ files = <<>>
    /\ scanned = 0

SpecServe == InitServe /\ [][NextServe]_vars

\* C28: starting from a pages table with no two names equal ignoring case,
\* after any sequence of POST /api/sync requests the table has at most one
\* row per case-insensitive name
C28_OneRowPerName ==
  pc = "serving"
    => \A a \in 1..Len(db) : \A b \in 1..Len(db) :
         a # b => ToLowerCase(db[a].name) # ToLowerCase(db[b].name)

\* C29: after calculateBacklinks, no page's backlinks list contains that
\* page's own name, compared ignoring case, whatever links the pages contain,
\* a page that links to itself included
C29_NoSelfBacklink ==
  pc = "linked"
    => \A b \in 1..Len(pages) :
         \A k \in 1..Len(pages[b].backlinks) :
           ToLowerCase(pages[b].backlinks[k]) # ToLowerCase(pages[b].name)

(***************************************************************************)
(* Two files of the vault with the same file name, in two directories,     *)
(* whose contents differ only in the text between a pair of @@dm markers.  *)
(***************************************************************************)
\* the text before the opening marker and after the closing one
DmBefore == { <<>>, <<"n", "\n">>, <<"#", "w", "i", "k", "i", "\n">>, <<"[", "[", "L", "]", "]", " ">> }

DmAfter == { <<>>, <<"\n", "m">>, <<"\n", "#", "w", "i", "k", "i">> }

\* the text between the markers
DmTexts ==
  { <<>>,
    <<" ", "s", " ">>,
    <<"\n", "\n", "\n">>,
    <<"#", "w", "i", "k", "i", " ">>,
    <<"[", "[", "S", "]", "]">>,
    <<"@", "#", "a", "@", "d", "m", "y">> }

DmFile(before, text, after) ==
  [filename |-> <<"T", ".", "m", "d">>,
   content |-> before \o DmMarker \o text \o DmMarker \o after]

InitDm ==
  \E before \in DmBefore, after \in DmAfter, one \in DmTexts, other \in DmTexts :
    /\ markdown = <<>>
    /\ pc = "collecting"
    /\ frontmatter = EmptyFrontmatter
    /\ lines = <<>>
    /\ i = 0
    /\ tokens = <<>>
    /\ out = cfgJoin(<<>>)
    /\ overrides = {}
    /\ pages = <<>>
    /\ db = <<>>
    /\ result = Undefined
    /\ files = <<DmFile(before, one, after), DmFile(before, other, after)>>
    /\ scanned = 0

SpecDm == InitDm /\ [][NextCollect]_vars

\* a and b are equal but for the text between a pair of @@dm markers, which
\* holds no marker
DmVariants(a, b) ==
  \E p \in 4..Min(Len(a), Len(b)) : \E q \in 4..(Min(Len(a), Len(b)) - p) :
    /\ Slice(a, 0, p) = Slice(b, 0, p)
    /\ Slice(a, p - 4, p) = DmMarker
    /\ Slice(a, Len(a) - q, Len(a)) = Slice(b, Len(b) - q, Len(b))
    /\ Slice(a, Len(a) - q, Len(a) - q + 4) = DmMarker
    /\ IndexOf(Slice(a, p, Len(a) - q), DmMarker, 0) = -1
    /\ IndexOf(Slice(b, p, Len(b) - q), DmMarker, 0) = -1

\* C30: for two vault files with the same file name that differ only in the
\* text between a pair of @@dm markers, collectPages publishes both or neither,
\* and when it publishes them their pages have the same content and links
C30_DmNoInfluence ==
  (/\ pc = "collected"
   /\ Len(files) = 2
   /\ files[1].filename = files[2].filename
   /\ DmVariants(files[1].content, files[2].content))
    => \/ pages = <<>>
       \/ /\ Len(pages) = 2
          /\ pages[1].name = pages[2].name
          /\ pages[1].content = pages[2].content
          /\ pages[1].links = pages[2].links

====
